---------------------------- MODULE Spec2Model ----------------------------
(***************************************************************************)
(* Library management system: the borrowing and fee engine of              *)
(* services/library_service.py over a persistence layer (module database)  *)
(* that holds the books and the borrow records.                            *)
(*                                                                         *)
(* Strings are sequences of one-character strings.  Instants (datetime)    *)
(* are integers counting ticks, TicksPerDay ticks to a calendar day, so    *)
(* that date() and timedelta(days = n) are computed, not assumed.  Money   *)
(* is counted in mills (1/1000 of a dollar), so that the rounding to two   *)
(* decimals done by _monetize is a computation.                            *)
(***************************************************************************)
EXTENDS Integers, Sequences, FiniteSets

VARIABLES
    books,      \* table books: Seq of rows, the id of a row is its index
    records,    \* table borrow_records: Seq of rows in insertion order
    now,        \* the wall clock read by datetime.now()
    result,     \* what the engine operation just run returned, Idle once
                \* the caller has taken it
    calls,      \* the calls that operation made to its collaborators (the
                \* persistence layer and the payment gateway), in order
    running     \* for each of two callers, the borrow or return it is
                \* inside: its position between two persistence calls and
                \* its local variables

vars == <<books, records, now, result, calls, running>>

---------------------------------------------------------------------------
(* Bounds of the model *)

\* ticks in one calendar day
TicksPerDay == 2

\* rows the table borrow_records may hold
MaxRecords == 2

\* rows the table borrow_records may hold while writes fail or raise
MaxRaiseRecords == 1

\* rows the table borrow_records may hold when one patron borrows alone
MaxLimitRecords == 6

\* last calendar day the clock reaches
MaxDay == 22

\* most days a loan is overdue when the fee calculator is exercised
MaxFeeDays == 32

---------------------------------------------------------------------------
(* Values *)

\* Python's None / SQL NULL for a date column
NoDate ==
    -1

Digits == {"0", "1", "2", "3", "4", "5", "6", "7", "8", "9"}

\* str.isdigit(): non-empty and every character a digit
IsDigit(s) ==
    /\ Len(s) > 0
    /\ \A i \in 1..Len(s) : s[i] \in Digits

\* datetime.date(): the calendar day of an instant
DateOf(t) ==
    t \div TicksPerDay

\* timedelta(days = n)
Days(n) ==
    n * TicksPerDay

Min(a, b) ==
    IF a <= b THEN a ELSE b

Max(a, b) ==
    IF a >= b THEN a ELSE b

\* float(f"{amount:.2f}") on an amount in mills: the nearest whole cent
\* (no amount of the engine lies half way between two cents)
_monetize(amount) ==
    ((amount + 5) \div 10) * 10

\* rates and cap of the late fee, in mills
FeePerDayFirstWeek == 500
FeePerDayAfter == 1000
FeeCap == 15000
FirstTierDays == 7

\* _parse_dt: a datetime is returned as it is, None gives None (the rows the
\* persistence layer hands back carry datetimes)
_parse_dt(val) ==
    IF val = NoDate THEN NoDate ELSE val

\* a fee capped at 20.00
CapFee_Twenty(fee) ==
    Min(fee, FeeCap + 5000)

\* a fee without its cap
CapFee_None(fee) ==
    fee

\* fee = min(fee, 15.00)
CapFee(fee) ==
    Min(fee, FeeCap)

\* from the eighth day on, only the days after the first seven charged
TieredFee_LaterDaysOnly(first_seven, remainder) ==
    IF remainder > 0
    THEN remainder * FeePerDayAfter
    ELSE first_seven * FeePerDayFirstWeek

\* nothing charged for the days after the first seven
TieredFee_FirstWeekOnly(first_seven, remainder) ==
    first_seven * FeePerDayFirstWeek

\* one rate for every overdue day
TieredFee_Flat(first_seven, remainder) ==
    (first_seven + remainder) * FeePerDayFirstWeek

\* first_seven * 0.50 + remainder * 1.00
TieredFee(first_seven, remainder) ==
    first_seven * FeePerDayFirstWeek + remainder * FeePerDayAfter

\* the pair (fee, days_overdue) is a record [fee, days]
_compute_fee_from_due_and_end(due_dt, end_dt) ==
    IF due_dt = NoDate \/ end_dt = NoDate
    THEN [fee |-> 0, days |-> 0]
    ELSE LET days_overdue == DateOf(end_dt) - DateOf(due_dt)
         IN  IF days_overdue <= 0
             THEN [fee |-> 0, days |-> 0]
             ELSE LET first_seven == Min(days_overdue, FirstTierDays)
                      remainder   == Max(days_overdue - FirstTierDays, 0)
                      fee         == CapFee(TieredFee(first_seven, remainder))
                  IN  [fee |-> _monetize(fee), days |-> days_overdue]

---------------------------------------------------------------------------
(* The persistence layer (module database): two tables and simple reads   *)
(* and writes keyed by identifiers.  A write that reports failure changes  *)
(* nothing.                                                                *)

\* get_book_by_id: the row, or None (here the empty sequence)
get_book_by_id(book_id) ==
    IF book_id \in 1..Len(books) THEN <<books[book_id]>> ELSE <<>>

\* get_book_by_isbn: the rows with that ISBN (empty when there is none)
get_book_by_isbn(isbn) ==
    SelectSeq(books, LAMBDA b : b.isbn = isbn)

\* get_patron_borrowed_books: the active rows of a patron, in table order
get_patron_borrowed_books(patron_id) ==
    SelectSeq(records, LAMBDA r : r.patron_id = patron_id /\ r.return_date = NoDate)

\* get_patron_borrow_count: how many active rows a patron has
get_patron_borrow_count(patron_id) ==
    Len(get_patron_borrowed_books(patron_id))

\* insert_book: a new row at the end of table books
insert_book(title, author, isbn, total_copies, available_copies) ==
    Append(books, [title |-> title, author |-> author, isbn |-> isbn,
                   total_copies |-> total_copies,
                   available_copies |-> available_copies])

\* insert_borrow_record: a new active row at the end of table borrow_records
insert_borrow_record(patron_id, book_id, borrow_date, due_date) ==
    Append(records, [patron_id |-> patron_id, book_id |-> book_id,
                     borrow_date |-> borrow_date, due_date |-> due_date,
                     return_date |-> NoDate])

\* update_book_availability: available_copies := available_copies + change
update_book_availability(bs, book_id, change) ==
    [i \in 1..Len(bs) |->
        IF i = book_id
        THEN [bs[i] EXCEPT !.available_copies = @ + change]
        ELSE bs[i]]

\* update_borrow_record_return_date: sets return_date on the rows of the
\* pair (patron, book) whose return_date is still NULL
update_borrow_record_return_date(rs, patron_id, book_id, return_date) ==
    [i \in 1..Len(rs) |->
        IF /\ rs[i].patron_id = patron_id
           /\ rs[i].book_id = book_id
           /\ rs[i].return_date = NoDate
        THEN [rs[i] EXCEPT !.return_date = return_date]
        ELSE rs[i]]

---------------------------------------------------------------------------
(* What an operation returns *)

\* op and args name the call; ok and msg are the returned pair (for
\* calculate_late_fee_for_book msg is the status); fee, days and due are
\* the amounts and the calendar date that the result carries
Outcome(op, args, ok, msg, fee, days, due) ==
    [op |-> op, args |-> args, ok |-> ok, msg |-> msg,
     fee |-> fee, days |-> days, due |-> due]

Failure(op, args, msg) ==
    Outcome(op, args, FALSE, msg, 0, 0, NoDate)

\* no operation is running and none has a result pending
Idle ==
    Outcome("idle", <<>>, TRUE, "", 0, 0, NoDate)

\* one call to a collaborator: a read
Call(fn, args) ==
    [fn |-> fn, args |-> args]

\* one call to a collaborator together with what it answered: a write of
\* the persistence layer (answer: whether it reports success, or that it
\* raises), the history query (answer: whether it ran without raising) or
\* an operation of the payment gateway (answer: what it returns or raises)
Answered(fn, args, answer) ==
    [fn |-> fn, args |-> args, answer |-> answer]

\* a call made again after its first answer
Once_Again(call) ==
    <<call, call>>

\* a write of the persistence layer or an operation of the gateway is one
\* call statement on a straight path: no loop, no second attempt
Once(call) ==
    <<call>>

\* a write that raises instead of answering
WriteRaises ==
    [kind |-> "raise"]

\* an exception that leaves the operation: the handlers catch none around
\* their calls to the persistence layer
Raised(op, args) ==
    [op |-> op, args |-> args, raised |-> TRUE]

MsgInvalidPatron == "Invalid patron ID. Must be exactly 6 digits."
MsgBookNotFound == "Book not found."
MsgNotAvailable == "This book is currently not available."
MsgBorrowLimit == "You have reached the maximum borrowing limit of 5 books."
MsgBorrowInsertError == "Database error occurred while creating borrow record."
MsgBorrowUpdateError == "Database error occurred while updating book availability."
MsgBorrowed == "Successfully borrowed."
MsgNoActiveRecord == "No active borrow record found for this patron and book."
MsgReturnRecordError == "Database error while recording the return."
MsgReturnUpdateError == "Database error while updating book availability."
MsgReturnedLate == "Returned. Late fee."
MsgReturnedOnTime == "Returned on time. No late fee."

\* the answer of a write never looked at
WriteFailed_Ignored(success) ==
    FALSE

\* if not borrow_success: / if not availability_success: / if not update_...:
WriteFailed(success) ==
    ~success

\* a patron ID judged by its length alone
InvalidPatronId_LengthOnly(patron_id) ==
    Len(patron_id) # 6

\* not patron_id or not patron_id.isdigit() or len(patron_id) != 6
InvalidPatronId(patron_id) ==
    \/ Len(patron_id) = 0
    \/ ~IsDigit(patron_id)
    \/ Len(patron_id) # 6

\* the limit test written as "more than 5"
LimitReached_Over(current_borrowed) ==
    current_borrowed > 5

\* current_borrowed >= 5
LimitReached(current_borrowed) ==
    current_borrowed >= 5

\* the availability test left out
NotAvailable_Never(book) ==
    FALSE

\* the availability test written as "below 0"
NotAvailable_Negative(book) ==
    book.available_copies < 0

\* book['available_copies'] <= 0
NotAvailable(book) ==
    book.available_copies <= 0

\* a loan of one week
DueDate_Week(borrow_date) ==
    borrow_date + Days(7)

\* due_date = borrow_date + timedelta(days=14)
DueDate(borrow_date) ==
    borrow_date + Days(14)

\* a borrow that leaves the count of copies as it is
BorrowChange_None ==
    1 - 1

\* update_book_availability(book_id, -1)
BorrowChange ==
    -1

\* a return that gives two copies back
ReturnChange_Two ==
    1 + 1

\* update_book_availability(book_id, +1)
ReturnChange ==
    1

\* a return that closes the loan only when it comes back in time
MarkReturned_OnTimeOnly(rs, patron_id, book_id, end_dt) ==
    [i \in 1..Len(rs) |->
        IF /\ rs[i].patron_id = patron_id
           /\ rs[i].book_id = book_id
           /\ rs[i].return_date = NoDate
           /\ DateOf(end_dt) <= DateOf(rs[i].due_date)
        THEN [rs[i] EXCEPT !.return_date = end_dt]
        ELSE rs[i]]

\* a return that stamps every row of the pair, returned ones included
MarkReturned_EveryRow(rs, patron_id, book_id, end_dt) ==
    [i \in 1..Len(rs) |->
        IF rs[i].patron_id = patron_id /\ rs[i].book_id = book_id
        THEN [rs[i] EXCEPT !.return_date = end_dt]
        ELSE rs[i]]

\* a return that leaves the row as it is
MarkReturned_Skip(rs, patron_id, book_id, end_dt) ==
    rs

\* update_borrow_record_return_date(patron_id, book_id, end_dt)
MarkReturned(rs, patron_id, book_id, end_dt) ==
    update_borrow_record_return_date(rs, patron_id, book_id, end_dt)

\* a fee of zero reported as a late fee
HasFee_AlsoZero(fee_amt) ==
    fee_amt >= 0

\* fee_amt > 0
HasFee(fee_amt) ==
    fee_amt > 0

\* the first active row of the patron, whatever its book
ActiveFor_AnyBook(current, book_id) ==
    current

\* next((r for r in current if int(r.get('book_id')) == int(book_id)), None)
ActiveFor(current, book_id) ==
    SelectSeq(current, LAMBDA r : r.book_id = book_id)

---------------------------------------------------------------------------
(* Catalog *)

MsgTitleRequired == "Title is required."
MsgTitleTooLong == "Title must be less than 200 characters."
MsgAuthorRequired == "Author is required."
MsgAuthorTooLong == "Author must be less than 100 characters."
MsgIsbnLength == "ISBN must be exactly 13 digits."
MsgCopiesPositive == "Total copies must be a positive integer."
MsgDuplicateIsbn == "A book with this ISBN already exists."
MsgBookAdded == "Book has been successfully added to the catalog."
MsgBookInsertError == "Database error occurred while adding the book."

RECURSIVE LStrip(_)
LStrip(s) ==
    IF s # <<>> /\ Head(s) = " " THEN LStrip(Tail(s)) ELSE s

RECURSIVE RStrip(_)
RStrip(s) ==
    IF s # <<>> /\ s[Len(s)] = " " THEN RStrip(SubSeq(s, 1, Len(s) - 1)) ELSE s

\* str.strip()
Strip(s) ==
    RStrip(LStrip(s))

\* a copy count refused only when it is below zero
InvalidCopies_Negative(total_copies) ==
    total_copies.type # "int" \/ total_copies.val < 0

\* not isinstance(total_copies, int) or total_copies <= 0
InvalidCopies(total_copies) ==
    total_copies.type # "int" \/ total_copies.val <= 0

\* the row read for the ISBN never taken for a duplicate
IsDuplicate_Never(existing) ==
    FALSE

\* existing = get_book_by_isbn(isbn); if existing:
IsDuplicate(existing) ==
    existing # <<>>

\* the message of the first validation of add_book_to_catalog that rejects
\* the input, "" when none does; total_copies is [type, val]
AddBookValidation(title, author, isbn, total_copies) ==
    IF Len(title) = 0 \/ Len(Strip(title)) = 0 THEN MsgTitleRequired
    ELSE IF Len(Strip(title)) > 200 THEN MsgTitleTooLong
    ELSE IF Len(author) = 0 \/ Len(Strip(author)) = 0 THEN MsgAuthorRequired
    ELSE IF Len(Strip(author)) > 100 THEN MsgAuthorTooLong
    ELSE IF Len(isbn) # 13 THEN MsgIsbnLength
    ELSE IF InvalidCopies(total_copies) THEN MsgCopiesPositive
    ELSE ""

add_book_to_catalog(title, author, isbn, total_copies, insert_ok) ==
    LET invalid == AddBookValidation(title, author, isbn, total_copies)
        read    == <<Call("get_book_by_isbn", <<isbn>>)>>
        write   == Once(Answered("insert_book", <<Strip(title), Strip(author), isbn,
                                                  total_copies.val, total_copies.val>>,
                                 insert_ok))
    IN  /\ UNCHANGED <<records, now>>
        /\ IF invalid # ""
           THEN /\ result' = Failure("add_book", <<title, author, isbn, total_copies>>, invalid)
                /\ calls' = <<>>
                /\ UNCHANGED books
           ELSE IF IsDuplicate(get_book_by_isbn(isbn))
           THEN /\ result' = Failure("add_book", <<title, author, isbn, total_copies>>, MsgDuplicateIsbn)
                /\ calls' = read
                /\ UNCHANGED books
           ELSE IF insert_ok
           THEN /\ books' = insert_book(Strip(title), Strip(author), isbn,
                                        total_copies.val, total_copies.val)
                /\ calls' = read \o write
                /\ result' = Outcome("add_book", <<title, author, isbn, total_copies>>, TRUE, MsgBookAdded, 0, 0, NoDate)
           ELSE /\ result' = Failure("add_book", <<title, author, isbn, total_copies>>, MsgBookInsertError)
                /\ calls' = read \o write
                /\ UNCHANGED books

\* get_all_books: every row of table books with its id, in table order
get_all_books ==
    [i \in 1..Len(books) |->
        [id |-> i, title |-> books[i].title, author |-> books[i].author,
         isbn |-> books[i].isbn, total_copies |-> books[i].total_copies,
         available_copies |-> books[i].available_copies]]

UpperCase ==
    <<"A", "B", "C", "D", "E", "F", "G", "H", "I", "J", "K", "L", "M",
      "N", "O", "P", "Q", "R", "S", "T", "U", "V", "W", "X", "Y", "Z">>

LowerCase ==
    <<"a", "b", "c", "d", "e", "f", "g", "h", "i", "j", "k", "l", "m",
      "n", "o", "p", "q", "r", "s", "t", "u", "v", "w", "x", "y", "z">>

\* str.lower()
Lower(s) ==
    [i \in 1..Len(s) |->
        IF \E k \in 1..Len(UpperCase) : UpperCase[k] = s[i]
        THEN LowerCase[CHOOSE k \in 1..Len(UpperCase) : UpperCase[k] = s[i]]
        ELSE s[i]]

\* the text searched for as it was typed, separators included
DigitsOnly_Same(s) ==
    s

\* re.sub(r"\D", "", s)
DigitsOnly(s) ==
    SelectSeq(s, LAMBDA c : c \in Digits)

\* low_term in val
Contains(val, low_term) ==
    \E i \in 0..(Len(val) - Len(low_term)) :
        SubSeq(val, i + 1, i + Len(low_term)) = low_term

\* the display record of a row
Formatted(b) ==
    [id |-> b.id, title |-> b.title, author |-> b.author, isbn |-> b.isbn,
     available_copies |-> b.available_copies, total_copies |-> b.total_copies,
     availability |-> <<b.available_copies, b.total_copies>>,
     can_borrow |-> b.available_copies > 0]

\* what search_books_in_catalog returns: the list found
Found(args, found) ==
    [op |-> "search", args |-> args, ok |-> TRUE, msg |-> "", found |-> found]

\* search_term, search_type: None is the empty sequence, a string s is <<s>>
search_books_in_catalog(search_term, search_type) ==
    LET term  == Strip(search_term[1])
        stype == IF search_type = <<>> THEN <<>> ELSE Lower(Strip(search_type[1]))
        all   == get_all_books
        norm_term == DigitsOnly(term)
        low_term  == Lower(term)
        results ==
            IF stype = <<"i", "s", "b", "n">>
            THEN SelectSeq(all, LAMBDA b : /\ DigitsOnly(b.isbn) = norm_term
                                           /\ DigitsOnly(b.isbn) # <<>>)
            ELSE IF stype = <<"t", "i", "t", "l", "e">>
            THEN SelectSeq(all, LAMBDA b : Contains(Lower(b.title), low_term))
            ELSE IF stype = <<"a", "u", "t", "h", "o", "r">>
            THEN SelectSeq(all, LAMBDA b : Contains(Lower(b.author), low_term))
            ELSE SelectSeq(all, LAMBDA b : \/ Contains(Lower(b.title), low_term)
                                           \/ Contains(Lower(b.author), low_term))
    IN
    /\ UNCHANGED <<books, records, now>>
    /\ IF search_term = <<>>
       THEN /\ result' = Found(<<search_term, search_type>>, <<>>)
            /\ calls' = <<>>
       ELSE IF term = <<>>
       THEN /\ result' = Found(<<search_term, search_type>>, <<>>)
            /\ calls' = <<>>
       ELSE /\ result' = Found(<<search_term, search_type>>,
                               [i \in 1..Len(results) |-> Formatted(results[i])])
            /\ calls' = <<Call("get_all_books", <<>>)>>

---------------------------------------------------------------------------
(* Lending *)

\* insert_ok, update_ok: what the two writes of the handler report
borrow_book_by_patron(patron_id, book_id, insert_ok, update_ok) ==
    LET borrow_date == now
        due_date    == DueDate(borrow_date)
        get_book    == <<Call("get_book_by_id", <<book_id>>)>>
        get_count   == <<Call("get_patron_borrow_count", <<patron_id>>)>>
        insert      == Once(Answered("insert_borrow_record",
                                     <<patron_id, book_id, borrow_date, due_date>>, insert_ok))
        update      == Once(Answered("update_book_availability", <<book_id, BorrowChange>>,
                                     update_ok))
    IN
    /\ UNCHANGED now
    /\ IF InvalidPatronId(patron_id)
       THEN /\ result' = Failure("borrow", <<patron_id, book_id>>, MsgInvalidPatron)
            /\ calls' = <<>>
            /\ UNCHANGED <<books, records>>
       ELSE IF get_book_by_id(book_id) = <<>>
       THEN /\ result' = Failure("borrow", <<patron_id, book_id>>, MsgBookNotFound)
            /\ calls' = get_book
            /\ UNCHANGED <<books, records>>
       ELSE IF NotAvailable(get_book_by_id(book_id)[1])
       THEN /\ result' = Failure("borrow", <<patron_id, book_id>>, MsgNotAvailable)
            /\ calls' = get_book
            /\ UNCHANGED <<books, records>>
       ELSE IF LimitReached(get_patron_borrow_count(patron_id))
       THEN /\ result' = Failure("borrow", <<patron_id, book_id>>, MsgBorrowLimit)
            /\ calls' = get_book \o get_count
            /\ UNCHANGED <<books, records>>
       ELSE IF WriteFailed(insert_ok)
       THEN /\ result' = Failure("borrow", <<patron_id, book_id>>, MsgBorrowInsertError)
            /\ calls' = get_book \o get_count \o insert
            /\ UNCHANGED <<books, records>>
       ELSE /\ records' = IF insert_ok
                           THEN insert_borrow_record(patron_id, book_id,
                                                     borrow_date, due_date)
                           ELSE records
            /\ calls' = get_book \o get_count \o insert \o update
            /\ books' = IF update_ok
                         THEN update_book_availability(books, book_id, BorrowChange)
                         ELSE books
            /\ IF WriteFailed(update_ok)
               THEN result' = Failure("borrow", <<patron_id, book_id>>, MsgBorrowUpdateError)
               ELSE result' = Outcome("borrow", <<patron_id, book_id>>, TRUE, MsgBorrowed,
                                         0, 0, DateOf(due_date))

\* record_ok, update_ok: what the two writes of the handler report
return_book_by_patron(patron_id, book_id, record_ok, update_ok) ==
    LET current  == get_patron_borrowed_books(patron_id)
        end_dt   == now
        get_book == <<Call("get_book_by_id", <<book_id>>)>>
        get_rows == <<Call("get_patron_borrowed_books", <<patron_id>>)>>
        mark     == Once(Answered("update_borrow_record_return_date",
                                  <<patron_id, book_id, end_dt>>, record_ok))
        update   == Once(Answered("update_book_availability", <<book_id, ReturnChange>>,
                                  update_ok))
    IN
    /\ UNCHANGED now
    /\ IF InvalidPatronId(patron_id)
       THEN /\ result' = Failure("return", <<patron_id, book_id>>, MsgInvalidPatron)
            /\ calls' = <<>>
            /\ UNCHANGED <<books, records>>
       ELSE IF get_book_by_id(book_id) = <<>>
       THEN /\ result' = Failure("return", <<patron_id, book_id>>, MsgBookNotFound)
            /\ calls' = get_book
            /\ UNCHANGED <<books, records>>
       ELSE IF ActiveFor(current, book_id) = <<>>
       THEN /\ result' = Failure("return", <<patron_id, book_id>>, MsgNoActiveRecord)
            /\ calls' = get_book \o get_rows
            /\ UNCHANGED <<books, records>>
       ELSE LET active == ActiveFor(current, book_id)[1]
                due_dt == _parse_dt(active.due_date)
                fee    == _compute_fee_from_due_and_end(due_dt, end_dt)
            IN  IF WriteFailed(record_ok)
                THEN /\ result' = Failure("return", <<patron_id, book_id>>, MsgReturnRecordError)
                     /\ calls' = get_book \o get_rows \o mark
                     /\ UNCHANGED <<books, records>>
                ELSE /\ records' = IF record_ok
                                    THEN MarkReturned(records, patron_id, book_id, end_dt)
                                    ELSE records
                     /\ calls' = get_book \o get_rows \o mark \o update
                     /\ books' = IF update_ok
                                  THEN update_book_availability(books, book_id, ReturnChange)
                                  ELSE books
                     /\ IF WriteFailed(update_ok)
                        THEN result' = Failure("return", <<patron_id, book_id>>, MsgReturnUpdateError)
                        ELSE result' =
                                  IF HasFee(fee.fee)
                                  THEN Outcome("return", <<patron_id, book_id>>, TRUE, MsgReturnedLate,
                                               fee.fee, fee.days, NoDate)
                                  ELSE Outcome("return", <<patron_id, book_id>>, TRUE, MsgReturnedOnTime,
                                               0, 0, NoDate)

\* borrow_book_by_patron on the path where a write raises.  first: the
\* insert raises; otherwise the insert has succeeded and the update raises.
\* Nothing catches the exception, so it leaves the operation where it
\* was raised; a write that raises has stored nothing.
borrow_book_by_patron_raises(patron_id, book_id, first) ==
    LET borrow_date == now
        due_date    == DueDate(borrow_date)
        get_book    == <<Call("get_book_by_id", <<book_id>>)>>
        get_count   == <<Call("get_patron_borrow_count", <<patron_id>>)>>
        args        == <<patron_id, book_id, borrow_date, due_date>>
    IN
    /\ ~InvalidPatronId(patron_id)
    /\ get_book_by_id(book_id) # <<>>
    /\ ~NotAvailable(get_book_by_id(book_id)[1])
    /\ ~LimitReached(get_patron_borrow_count(patron_id))
    /\ result' = Raised("borrow", <<patron_id, book_id>>)
    /\ UNCHANGED <<books, now>>
    /\ IF first
       THEN /\ calls' = get_book \o get_count \o
                        Once(Answered("insert_borrow_record", args, WriteRaises))
            /\ UNCHANGED records
       ELSE /\ calls' = get_book \o get_count \o
                        Once(Answered("insert_borrow_record", args, TRUE)) \o
                        Once(Answered("update_book_availability",
                                      <<book_id, BorrowChange>>, WriteRaises))
            /\ records' = insert_borrow_record(patron_id, book_id, borrow_date, due_date)

\* return_book_by_patron on the path where a write raises.  first: setting
\* the return date raises; otherwise it has succeeded and the update raises.
return_book_by_patron_raises(patron_id, book_id, first) ==
    LET current  == get_patron_borrowed_books(patron_id)
        end_dt   == now
        get_book == <<Call("get_book_by_id", <<book_id>>)>>
        get_rows == <<Call("get_patron_borrowed_books", <<patron_id>>)>>
        args     == <<patron_id, book_id, end_dt>>
    IN
    /\ ~InvalidPatronId(patron_id)
    /\ get_book_by_id(book_id) # <<>>
    /\ ActiveFor(current, book_id) # <<>>
    /\ result' = Raised("return", <<patron_id, book_id>>)
    /\ UNCHANGED <<books, now>>
    /\ IF first
       THEN /\ calls' = get_book \o get_rows \o
                        Once(Answered("update_borrow_record_return_date", args, WriteRaises))
            /\ UNCHANGED records
       ELSE /\ calls' = get_book \o get_rows \o
                        Once(Answered("update_borrow_record_return_date", args, TRUE)) \o
                        Once(Answered("update_book_availability",
                                      <<book_id, ReturnChange>>, WriteRaises))
            /\ records' = MarkReturned(records, patron_id, book_id, end_dt)

---------------------------------------------------------------------------
(* Two callers inside borrow_book_by_patron and return_book_by_patron at   *)
(* once.  A step of a caller is one call to the persistence layer together *)
(* with the statements that follow it up to the next call; the steps of    *)
(* the two callers interleave freely.  Every write succeeds.               *)

Callers == {1, 2}

\* a caller inside an operation: pc names the persistence call it makes
\* next; book and active are the local variables of that name (None is the
\* empty sequence); ok and msg are what the operation returns once done
Caller(op, pc, patron_id, book_id, book, active, ok, msg) ==
    [op |-> op, pc |-> pc, patron_id |-> patron_id, book_id |-> book_id,
     book |-> book, active |-> active, ok |-> ok, msg |-> msg]

\* a caller inside no operation
Waiting ==
    Caller("none", "idle", <<>>, 0, <<>>, <<>>, FALSE, "")

\* the operation of r moves on to its next persistence call
Goto(r, pc) ==
    [r EXCEPT !.pc = pc]

\* the operation of r returns (ok, msg)
Returns(r, ok, msg) ==
    [r EXCEPT !.pc = "done", !.ok = ok, !.msg = msg]

\* a caller enters borrow_book_by_patron or return_book_by_patron: the
\* patron ID is validated before the first persistence call
Enter(c, op, patron_id, book_id) ==
    LET r == Caller(op, "get_book", patron_id, book_id, <<>>, <<>>, FALSE, "")
    IN  /\ running[c].pc = "idle"
        /\ running' = [running EXCEPT ![c] =
                          IF InvalidPatronId(patron_id)
                          THEN Returns(r, FALSE, MsgInvalidPatron)
                          ELSE r]
        /\ UNCHANGED <<books, records, now, result, calls>>

\* the next persistence call of a caller inside borrow_book_by_patron
borrow_book_by_patron_step(c) ==
    LET r           == running[c]
        borrow_date == now
        due_date    == DueDate(borrow_date)
    IN
    /\ r.op = "borrow"
    /\ UNCHANGED <<now, result, calls>>
    /\ IF r.pc = "get_book"
       THEN LET book == get_book_by_id(r.book_id)
            IN  /\ running' = [running EXCEPT ![c] =
                                  IF book = <<>>
                                  THEN Returns(r, FALSE, MsgBookNotFound)
                                  ELSE IF NotAvailable(book[1])
                                  THEN Returns([r EXCEPT !.book = book], FALSE, MsgNotAvailable)
                                  ELSE Goto([r EXCEPT !.book = book], "get_count")]
                /\ UNCHANGED <<books, records>>
       ELSE IF r.pc = "get_count"
       THEN /\ running' = [running EXCEPT ![c] =
                              IF LimitReached(get_patron_borrow_count(r.patron_id))
                              THEN Returns(r, FALSE, MsgBorrowLimit)
                              ELSE Goto(r, "insert")]
            /\ UNCHANGED <<books, records>>
       ELSE IF r.pc = "insert"
       THEN /\ records' = insert_borrow_record(r.patron_id, r.book_id, borrow_date, due_date)
            /\ running' = [running EXCEPT ![c] = Goto(r, "update")]
            /\ UNCHANGED books
       ELSE /\ r.pc = "update"
            /\ books' = update_book_availability(books, r.book_id, BorrowChange)
            /\ running' = [running EXCEPT ![c] = Returns(r, TRUE, MsgBorrowed)]
            /\ UNCHANGED records

\* the next persistence call of a caller inside return_book_by_patron
return_book_by_patron_step(c) ==
    LET r == running[c]
    IN
    /\ r.op = "return"
    /\ UNCHANGED <<now, result, calls>>
    /\ IF r.pc = "get_book"
       THEN LET book == get_book_by_id(r.book_id)
            IN  /\ running' = [running EXCEPT ![c] =
                                  IF book = <<>>
                                  THEN Returns(r, FALSE, MsgBookNotFound)
                                  ELSE Goto([r EXCEPT !.book = book], "get_rows")]
                /\ UNCHANGED <<books, records>>
       ELSE IF r.pc = "get_rows"
       THEN LET active == ActiveFor(get_patron_borrowed_books(r.patron_id), r.book_id)
            IN  /\ running' = [running EXCEPT ![c] =
                                  IF active = <<>>
                                  THEN Returns(r, FALSE, MsgNoActiveRecord)
                                  ELSE Goto([r EXCEPT !.active = <<active[1]>>], "mark")]
                /\ UNCHANGED <<books, records>>
       ELSE IF r.pc = "mark"
       THEN /\ records' = MarkReturned(records, r.patron_id, r.book_id, now)
            /\ running' = [running EXCEPT ![c] = Goto(r, "update")]
            /\ UNCHANGED books
       ELSE /\ r.pc = "update"
            /\ books' = update_book_availability(books, r.book_id, ReturnChange)
            /\ running' = [running EXCEPT ![c] =
                  Returns(r, TRUE,
                          IF HasFee(_compute_fee_from_due_and_end(
                                        _parse_dt(r.active[1].due_date), now).fee)
                          THEN MsgReturnedLate
                          ELSE MsgReturnedOnTime)]
            /\ UNCHANGED records

\* a caller takes what its operation returned
Leave(c) ==
    /\ running[c].pc = "done"
    /\ running' = [running EXCEPT ![c] = Waiting]
    /\ UNCHANGED <<books, records, now, result, calls>>

\* days_overdue >= 0 taken for overdue
StatusOf_NotBefore(days_overdue) ==
    IF days_overdue >= 0 THEN "ok" ELSE "not_overdue"

\* status = 'ok' if days_overdue > 0 else 'not_overdue'
StatusOf(days_overdue) ==
    IF days_overdue > 0 THEN "ok" ELSE "not_overdue"

\* the dictionary calculate_late_fee_for_book returns
fee_info(patron_id, book_id) ==
    LET current == get_patron_borrowed_books(patron_id)
    IN  IF ActiveFor(current, book_id) = <<>>
        THEN [fee_amount |-> 0, days_overdue |-> 0, due_date |-> NoDate,
              status |-> "not_found"]
        ELSE LET active == ActiveFor(current, book_id)[1]
                 due_dt == _parse_dt(active.due_date)
                 fee    == _compute_fee_from_due_and_end(due_dt, now)
             IN  [fee_amount |-> _monetize(fee.fee), days_overdue |-> fee.days,
                  due_date |-> IF due_dt # NoDate THEN DateOf(due_dt) ELSE NoDate,
                  status |-> StatusOf(fee.days)]

\* read-only; the result carries status (as msg), fee_amount, days_overdue
\* and due_date
calculate_late_fee_for_book(patron_id, book_id) ==
    /\ UNCHANGED <<books, records, now>>
    /\ calls' = <<Call("get_patron_borrowed_books", <<patron_id>>)>>
    /\ LET info == fee_info(patron_id, book_id)
       IN  result' = Outcome("late_fee", <<patron_id, book_id>>, TRUE, info.status,
                             info.fee_amount, info.days_overdue, info.due_date)

\* a call of the fee calculator on its own
ComputeFee(due_dt, end_dt) ==
    /\ UNCHANGED <<books, records, now>>
    /\ calls' = <<>>
    /\ LET fee == _compute_fee_from_due_and_end(due_dt, end_dt)
       IN  result' = Outcome("compute_fee", <<due_dt, end_dt>>, TRUE, "",
                             fee.fee, fee.days, NoDate)

---------------------------------------------------------------------------
(* Patron status report *)

\* the rows of the history query: the rows of the patron whose book is in
\* table books (JOIN), in table order
HistoryRows(patron_id) ==
    SelectSeq(records, LAMBDA r : r.patron_id = patron_id /\ r.book_id \in 1..Len(books))

\* ORDER BY borrow_date DESC: the latest borrow first (rows are inserted in
\* the order of their borrow dates)
Reverse(rows) ==
    [i \in 1..Len(rows) |-> rows[Len(rows) + 1 - i]]

\* strftime("%Y-%m-%d") of a date column, None for NULL
DateText(dt) ==
    IF dt = NoDate THEN NoDate ELSE DateOf(dt)

\* total_fees = fee_amt: the fee of the last row alone
SumFees_Last(entries) ==
    IF entries = <<>> THEN 0 ELSE entries[Len(entries)].fee

\* total_fees += fee_amt over the rows
RECURSIVE SumFees(_)
SumFees(entries) ==
    IF entries = <<>> THEN 0 ELSE Head(entries).fee + SumFees(Tail(entries))

\* the report dictionary
Report(patron_id, status, current_borrows, total_late_fees, history) ==
    [op |-> "status", args |-> <<patron_id>>, ok |-> TRUE, msg |-> status,
     current_borrows |-> current_borrows,
     current_borrow_count |-> Len(current_borrows),
     total_late_fees |-> total_late_fees,
     history |-> history]

\* the rows already read kept when the history block fails
History_Kept(history_ok, history) ==
    history

\* try: ... report['history'] = history / except Exception:
\* report['history'] = []
History(history_ok, history) ==
    IF history_ok THEN history ELSE <<>>

\* history_ok: whether the history block ran without raising
get_patron_status_report(patron_id, history_ok) ==
    /\ UNCHANGED <<books, records, now>>
    /\ IF InvalidPatronId(patron_id)
       THEN /\ result' = Report(patron_id, "invalid_patron_id", <<>>, 0, <<>>)
            /\ calls' = <<>>
       ELSE LET current == get_patron_borrowed_books(patron_id)
                fees    == [i \in 1..Len(current) |->
                              _compute_fee_from_due_and_end(_parse_dt(current[i].due_date), now)]
                entries == [i \in 1..Len(current) |->
                              [book_id |-> current[i].book_id,
                               title |-> books[current[i].book_id].title,
                               due_date |-> DateText(_parse_dt(current[i].due_date)),
                               days_overdue |-> fees[i].days,
                               late_fee |-> _monetize(fees[i].fee)]]
                rows    == Reverse(HistoryRows(patron_id))
                history == [i \in 1..Len(rows) |->
                              [book_id |-> rows[i].book_id,
                               title |-> books[rows[i].book_id].title,
                               borrow_date |-> DateText(_parse_dt(rows[i].borrow_date)),
                               due_date |-> DateText(_parse_dt(rows[i].due_date)),
                               return_date |-> DateText(_parse_dt(rows[i].return_date))]]
            IN  /\ result' = Report(patron_id, "ok", entries, _monetize(SumFees(fees)),
                                    History(history_ok, history))
                /\ calls' = <<Call("get_patron_borrowed_books", <<patron_id>>),
                              Answered("get_db_connection", <<>>, history_ok)>>

---------------------------------------------------------------------------
(* Payment settlement.  The payment gateway is an injected collaborator    *)
(* with two operations; an answer of the gateway is what a call returns,  *)
(* or the exception it raises.                                             *)

\* Optional[str]: None is the empty sequence, a string s is <<s>>
NoTxn ==
    <<>>

MsgNoFees == "No late fees to pay for this book."
MsgPaymentSuccessful == "Payment successful!"
MsgPaymentFailed == "Payment failed:"
MsgPaymentError == "Payment processing error:"
MsgInvalidTxn == "Invalid transaction ID."
MsgRefundNotPositive == "Refund amount must be greater than 0."
MsgRefundExceeds == "Refund amount exceeds maximum late fee."
MsgRefundFailed == "Refund failed:"
MsgRefundError == "Refund processing error:"

\* what pay_late_fees and refund_late_fee_payment return: the message is msg
\* followed by detail, the text that comes from the gateway
Settled(op, args, ok, msg, detail, transaction_id) ==
    [op |-> op, args |-> args, ok |-> ok, msg |-> msg, detail |-> detail,
     transaction_id |-> transaction_id]

\* refund_late_fee_payment returns the pair alone
SettledPair(op, args, ok, msg, detail) ==
    [op |-> op, args |-> args, ok |-> ok, msg |-> msg, detail |-> detail]

\* a fee of up to 1.00 taken for nothing to pay
NoFeeToPay_UpToOne(fee_amount) ==
    fee_amount <= 500 + 500

\* no fee only when the amount is below zero
NoFeeToPay_Negative(fee_amount) ==
    fee_amount < 0

\* fee_amount <= 0
NoFeeToPay(fee_amount) ==
    fee_amount <= 0

\* the outcome of the gateway read the wrong way round
GatewayApproved_Inverted(gateway) ==
    ~gateway.success

\* a payment reported as made whatever the gateway answers
GatewayApproved_Always(gateway) ==
    TRUE

\* if success: (the first component of what process_payment returned)
GatewayApproved(gateway) ==
    gateway.success

\* the exception of the gateway let through as if the call had returned
GatewayRaised_Ignored(gateway) ==
    FALSE

\* except Exception as e:
GatewayRaised(gateway) ==
    gateway.kind = "raise"

pay_late_fees(patron_id, book_id, gateway) ==
    LET info        == fee_info(patron_id, book_id)
        fee_amount  == info.fee_amount
        book        == get_book_by_id(book_id)
        get_rows    == <<Call("get_patron_borrowed_books", <<patron_id>>)>>
        get_book    == <<Call("get_book_by_id", <<book_id>>)>>
    IN
    /\ UNCHANGED <<books, records, now>>
    /\ IF InvalidPatronId(patron_id)
       THEN /\ result' = Settled("pay", <<patron_id, book_id>>, FALSE, MsgInvalidPatron, "", NoTxn)
            /\ calls' = <<>>
       ELSE IF NoFeeToPay(fee_amount)
       THEN /\ result' = Settled("pay", <<patron_id, book_id>>, FALSE, MsgNoFees, "", NoTxn)
            /\ calls' = get_rows
       ELSE IF book = <<>>
       THEN /\ result' = Settled("pay", <<patron_id, book_id>>, FALSE, MsgBookNotFound, "", NoTxn)
            /\ calls' = get_rows \o get_book
       ELSE /\ calls' = get_rows \o get_book \o
                        Once(Answered("process_payment",
                                      <<patron_id, fee_amount, book[1].title>>, gateway))
            /\ result' =
                 IF GatewayRaised(gateway)
                 THEN Settled("pay", <<patron_id, book_id>>, FALSE, MsgPaymentError,
                              gateway.message, NoTxn)
                 ELSE IF GatewayApproved(gateway)
                 THEN Settled("pay", <<patron_id, book_id>>, TRUE, MsgPaymentSuccessful,
                              gateway.message, <<gateway.transaction_id>>)
                 ELSE Settled("pay", <<patron_id, book_id>>, FALSE, MsgPaymentFailed,
                              gateway.message, NoTxn)

\* the prefix of a transaction id
TxnPrefix == <<"t", "x", "n", "_">>

\* str.startswith
StartsWith(s, prefix) ==
    /\ Len(s) >= Len(prefix)
    /\ SubSeq(s, 1, Len(prefix)) = prefix

\* not transaction_id or not transaction_id.startswith("txn_")
InvalidTransactionId(transaction_id) ==
    \/ Len(transaction_id) = 0
    \/ ~StartsWith(transaction_id, TxnPrefix)

\* the maximum late fee per book, in mills
MaxRefund == 15000

\* an amount of exactly the maximum refused
ExceedsMaximum_AtCap(amount) ==
    amount >= MaxRefund

\* amount > 15.00
ExceedsMaximum(amount) ==
    amount > MaxRefund

refund_late_fee_payment(transaction_id, amount, gateway) ==
    /\ UNCHANGED <<books, records, now>>
    /\ IF InvalidTransactionId(transaction_id)
       THEN /\ result' = SettledPair("refund", <<transaction_id, amount>>, FALSE, MsgInvalidTxn, "")
            /\ calls' = <<>>
       ELSE IF amount <= 0
       THEN /\ result' = SettledPair("refund", <<transaction_id, amount>>, FALSE, MsgRefundNotPositive, "")
            /\ calls' = <<>>
       ELSE IF ExceedsMaximum(amount)
       THEN /\ result' = SettledPair("refund", <<transaction_id, amount>>, FALSE, MsgRefundExceeds, "")
            /\ calls' = <<>>
       ELSE /\ calls' = Once(Answered("refund_payment", <<transaction_id, amount>>, gateway))
            /\ result' =
                 IF GatewayRaised(gateway)
                 THEN SettledPair("refund", <<transaction_id, amount>>, FALSE, MsgRefundError,
                              gateway.message)
                 ELSE IF GatewayApproved(gateway)
                 THEN SettledPair("refund", <<transaction_id, amount>>, TRUE, "",
                              gateway.message)
                 ELSE SettledPair("refund", <<transaction_id, amount>>, FALSE, MsgRefundFailed,
                              gateway.message)

\* two calls of the fee calculator for one due date
ComputeFeeTwice(due_dt, now1, now2) ==
    /\ UNCHANGED <<books, records, now>>
    /\ calls' = <<>>
    /\ result' = [op |-> "compute_fee_twice", args |-> <<due_dt, now1, now2>>,
                  ok |-> TRUE, msg |-> "",
                  first |-> _compute_fee_from_due_and_end(due_dt, now1),
                  second |-> _compute_fee_from_due_and_end(due_dt, now2)]

\* time passes between two operations
Tick(d) ==
    /\ DateOf(now + d) <= MaxDay
    /\ now' = now + d
    /\ UNCHANGED <<books, records, result, calls>>

\* the caller takes the result; operations run one at a time
TakeResult ==
    /\ result.op # "idle"
    /\ UNCHANGED running
    /\ result' = Idle
    /\ calls' = <<>>
    /\ UNCHANGED <<books, records, now>>

---------------------------------------------------------------------------
(* Inputs of the operations *)

Repeat(c, n) ==
    [i \in 1..n |-> c]

Patron1 == <<"1", "2", "3", "4", "5", "6">>
Patron2 == <<"6", "5", "4", "3", "2", "1">>

\* a 5-digit patron ID, a non-numeric one, the empty one
BadPatrons ==
    {<<"1", "2", "3", "4", "5">>, <<"1", "2", "A", "4", "5", "6">>, <<>>}

PatronInputs ==
    {Patron1, Patron2} \cup BadPatrons

\* ids of the rows the catalog can hold, and one more
BookIdInputs == {1, 2, 3}

Isbn1 == Repeat("9", 13)
Isbn2 == Repeat("9", 12) \o <<"X">>

IntCopies(n) ==
    [type |-> "int", val |-> n]

AddInput(title, author, isbn, total_copies) ==
    [title |-> title, author |-> author, isbn |-> isbn, total_copies |-> total_copies]

\* requests that differ from an accepted one in a single field
RejectedAddInputs ==
    {AddInput(<<" ">>, <<"b">>, Isbn1, IntCopies(1)),
     AddInput(<<>>, <<"b">>, Isbn1, IntCopies(1)),
     AddInput(Repeat("a", 201), <<"b">>, Isbn1, IntCopies(1)),
     AddInput(<<"a">>, <<" ">>, Isbn1, IntCopies(1)),
     AddInput(<<"a">>, Repeat("b", 101), Isbn1, IntCopies(1)),
     AddInput(<<"a">>, <<"b">>, Repeat("9", 12), IntCopies(1)),
     AddInput(<<"a">>, <<"b">>, Isbn1, IntCopies(0)),
     AddInput(<<"a">>, <<"b">>, Isbn1, [type |-> "float", val |-> 2])}

\* a one-copy book and a three-copy book
AddInputs ==
    {AddInput(<<" ", "a", " ">>, <<"b">>, Isbn1, IntCopies(1)),
     AddInput(<<"a">>, <<"b">>, Isbn2, IntCopies(3))} \cup RejectedAddInputs

\* two three-copy books: room for six loans
LimitAddInputs ==
    {AddInput(<<"a">>, <<"b">>, Isbn1, IntCopies(3)),
     AddInput(<<"a">>, <<"b">>, Isbn2, IntCopies(3))}

\* the clock moves on by 22 days and a half
ClockSteps == {Days(22) + 1}

\* due dates and evaluation instants handed to the fee calculator
FeeDueInputs ==
    {NoDate} \cup (0 .. Days(2) - 1)

FeeEndInputs ==
    {NoDate} \cup (0 .. Days(MaxFeeDays + 2) - 1)

\* a loan of the three-copy book made by Patron1 at instant 0
LoanBooks ==
    <<[title |-> <<"a">>, author |-> <<"b">>, isbn |-> Isbn2,
       total_copies |-> 3, available_copies |-> 2]>>

LoanRecords ==
    <<[patron_id |-> Patron1, book_id |-> 1, borrow_date |-> 0,
       due_date |-> Days(14), return_date |-> NoDate]>>

\* the two books of AddInputs that the catalog accepts
ServiceAddInputs ==
    {AddInput(<<" ", "a", " ">>, <<"b">>, Isbn1, IntCopies(1)),
     AddInput(<<"a">>, <<"b">>, Isbn2, IntCopies(3))}

\* two patrons and an ill-formed patron ID
ServicePatrons ==
    {Patron1, Patron2, <<"1", "2", "3", "4", "5">>}

\* the clock moves on by 9 days
ServiceSteps == {Days(9)}

Txn1 == <<"t", "x", "n", "_", "1">>
Txn2 == <<"t", "x", "n", "_", "2">>

\* what process_payment may answer: an exception, an approval with a
\* transaction id, a refusal
PaymentAnswer(kind, success, transaction_id, message) ==
    [kind |-> kind, success |-> success, transaction_id |-> transaction_id,
     message |-> message]

PaymentAnswers ==
    {PaymentAnswer("raise", FALSE, <<>>, "Network error"),
     PaymentAnswer("return", TRUE, Txn1, "Gateway approved"),
     PaymentAnswer("return", TRUE, Txn2, "Gateway approved"),
     PaymentAnswer("return", FALSE, <<>>, "Card declined")}

\* what refund_payment may answer
RefundAnswer(kind, success, message) ==
    [kind |-> kind, success |-> success, message |-> message]

RefundAnswers ==
    {RefundAnswer("raise", FALSE, "Network error"),
     RefundAnswer("return", TRUE, "Refund processed"),
     RefundAnswer("return", FALSE, "Invalid refund amount")}

\* transaction ids: none, two well-formed ones, the bare prefix, and ids
\* that do not start with the prefix
TxnInputs ==
    {<<>>, Txn1, Txn2, <<"t", "x", "n", "_">>, <<"t", "x", "n">>,
     <<"T", "X", "N", "_", "1">>, <<"x", "t", "x", "n", "_", "1">>}

\* amounts in mills: below, at and above 0.00 and 15.00
AmountInputs ==
    {-3000, -1, 0, 1, 500, 5750, 14999, 15000, 15001, 20000}

\* three books the catalog accepts: an ISBN of 13 digits, one of digits
\* and hyphens, one without a digit
SearchAddInputs ==
    {AddInput(<<"A", "b">>, <<"c", "d">>, Isbn1, IntCopies(1)),
     AddInput(<<"b", "a">>, <<"A", "B">>,
              <<"9", "-", "9", "-", "9", "-", "9", "-", "9", "-", "9", "-", "9">>,
              IntCopies(1)),
     AddInput(<<"x">>, <<"y", " ", "a">>, Repeat("X", 13), IntCopies(1))}

\* search terms: none, blank ones, letters of either case alone and padded,
\* ISBNs with and without separators, a term without a digit
SearchTerms ==
    {<<>>, <<<<>>>>, <<<<" ">>>>,
     <<<<"a">>>>, <<<<"A", "B">>>>, <<<<" ", "a">>>>, <<<<"a", " ">>>>, <<<<"d">>>>,
     <<<<"X">>>>, <<<<"z">>>>,
     <<Isbn1>>, <<<<"9", "9", "9", "9", "9", "9", "9">>>>,
     <<<<"9", "9", "9", "9", "-", "9", "9", "9", "9", "-", "9", "9", "9", "9", "9">>>>,
     <<<<"x", "-">>>>}

\* search types: none, the three names as they are and in other case or
\* padded, another name, the empty one
SearchTypes ==
    {<<>>, <<<<>>>>,
     <<<<"i", "s", "b", "n">>>>, <<<<" ", "I", "S", "B", "N", " ">>>>,
     <<<<"t", "i", "t", "l", "e">>>>, <<<<"T", "i", "t", "l", "e">>>>,
     <<<<"a", "u", "t", "h", "o", "r">>>>,
     <<<<"p", "u", "b", "l", "i", "s", "h", "e", "r">>>>}

---------------------------------------------------------------------------
(* The specification *)

\* the state after init_database() on an empty database file
Init ==
    /\ books = <<>>
    /\ records = <<>>
    /\ now = 0
    /\ result = Idle
    /\ calls = <<>>
    /\ running = [c \in Callers |-> Waiting]

\* oks: the answers a write may give ({TRUE}: every write succeeds)
AddBook(inputs, oks) ==
    /\ result.op = "idle"
    /\ UNCHANGED running
    /\ \E in \in inputs, insert_ok \in oks :
          add_book_to_catalog(in.title, in.author, in.isbn, in.total_copies, insert_ok)

\* cap: the rows table borrow_records may hold
Borrow(patrons, oks, cap) ==
    /\ result.op = "idle"
    /\ UNCHANGED running
    /\ \E patron_id \in patrons, book_id \in BookIdInputs, insert_ok \in oks, update_ok \in oks :
          /\ borrow_book_by_patron(patron_id, book_id, insert_ok, update_ok)
          /\ Len(records') <= cap

Return(patrons, oks) ==
    /\ result.op = "idle"
    /\ UNCHANGED running
    /\ \E patron_id \in patrons, book_id \in BookIdInputs, record_ok \in oks, update_ok \in oks :
          return_book_by_patron(patron_id, book_id, record_ok, update_ok)

Clock ==
    /\ result.op = "idle"
    /\ UNCHANGED running
    /\ \E d \in ClockSteps :
          Tick(d)

\* every operation on every input while time passes; every write succeeds
Next ==
    \/ AddBook(AddInputs, {TRUE})
    \/ Borrow(PatronInputs, {TRUE}, MaxRecords)
    \/ Return(PatronInputs, {TRUE})
    \/ Clock
    \/ TakeResult

Spec ==
    Init /\ [][Next]_vars

\* every operation on every input at one instant; a write succeeds or
\* reports failure
FaultNext ==
    \/ AddBook(AddInputs, BOOLEAN)
    \/ Borrow(PatronInputs, BOOLEAN, MaxRecords)
    \/ Return(PatronInputs, BOOLEAN)
    \/ TakeResult

FaultSpec ==
    Init /\ [][FaultNext]_vars

\* one patron borrowing up to the limit (and an ill-formed patron ID);
\* every write succeeds
LimitPatrons ==
    {Patron1, <<"1", "2", "3", "4", "5">>, <<"1", "2", "A", "4", "5", "6">>}

LimitNext ==
    \/ AddBook(LimitAddInputs, {TRUE})
    \/ Borrow(LimitPatrons, {TRUE}, MaxLimitRecords)
    \/ Return(LimitPatrons, {TRUE})
    \/ TakeResult

LimitSpec ==
    Init /\ [][LimitNext]_vars

\* the fee calculator on every pair of inputs, and the late fee of a loan
\* as the days go by
FeeInit ==
    /\ books = LoanBooks
    /\ records = LoanRecords
    /\ now = 0
    /\ result = Idle
    /\ calls = <<>>
    /\ running = [c \in Callers |-> Waiting]

LateFee(patrons) ==
    /\ result.op = "idle"
    /\ UNCHANGED running
    /\ \E patron_id \in patrons, book_id \in BookIdInputs :
          calculate_late_fee_for_book(patron_id, book_id)

FeeCall ==
    /\ result.op = "idle"
    /\ UNCHANGED running
    /\ \E due_dt \in FeeDueInputs, end_dt \in FeeEndInputs :
          ComputeFee(due_dt, end_dt)

FeeClock ==
    /\ result.op = "idle"
    /\ UNCHANGED running
    /\ DateOf(now + 1) <= 14 + MaxFeeDays
    /\ now' = now + 1
    /\ UNCHANGED <<books, records, result, calls>>

FeeNext ==
    \/ FeeCall
    \/ LateFee({Patron1, Patron2})
    \/ FeeClock
    \/ TakeResult

FeeSpec ==
    FeeInit /\ [][FeeNext]_vars

StatusReport(patrons) ==
    /\ result.op = "idle"
    /\ UNCHANGED running
    /\ \E patron_id \in patrons, history_ok \in BOOLEAN :
          get_patron_status_report(patron_id, history_ok)

Pay(patrons) ==
    /\ result.op = "idle"
    /\ UNCHANGED running
    /\ \E patron_id \in patrons, book_id \in BookIdInputs, gateway \in PaymentAnswers :
          pay_late_fees(patron_id, book_id, gateway)

Refund ==
    /\ result.op = "idle"
    /\ UNCHANGED running
    /\ \E transaction_id \in TxnInputs, amount \in AmountInputs, gateway \in RefundAnswers :
          refund_late_fee_payment(transaction_id, amount, gateway)

ServiceClock ==
    /\ result.op = "idle"
    /\ UNCHANGED running
    /\ \E d \in ServiceSteps :
          Tick(d)

\* the lending desk: borrows, returns, fee enquiries, status reports and
\* payments while the days go by; every write succeeds
ServiceNext ==
    \/ AddBook(ServiceAddInputs, {TRUE})
    \/ Borrow(ServicePatrons, {TRUE}, MaxRecords)
    \/ Return(ServicePatrons, {TRUE})
    \/ LateFee(ServicePatrons)
    \/ StatusReport(ServicePatrons)
    \/ Pay(ServicePatrons)
    \/ ServiceClock
    \/ TakeResult

ServiceSpec ==
    Init /\ [][ServiceNext]_vars

\* settling the fee of a loan as the days go by, and refunds
SettleNext ==
    \/ Pay(ServicePatrons)
    \/ Refund
    \/ LateFee(ServicePatrons)
    \/ FeeClock
    \/ TakeResult

SettleSpec ==
    FeeInit /\ [][SettleNext]_vars

FeeCallTwice ==
    /\ result.op = "idle"
    /\ UNCHANGED running
    /\ \E due_dt \in FeeDueInputs, now1 \in FeeEndInputs, now2 \in FeeEndInputs :
          ComputeFeeTwice(due_dt, now1, now2)

\* the fee calculator at two instants for one due date
FeePairNext ==
    \/ FeeCallTwice
    \/ TakeResult

FeePairSpec ==
    Init /\ [][FeePairNext]_vars

\* the patron of the two callers, and an ill-formed patron ID
RacePatrons ==
    {Patron1, <<"1", "2", "3", "4", "5">>}

\* the id of the book, and one no book has
RaceBookIds ==
    {1, 2}

\* one well-formed patron ID and one that is not
RaisePatrons ==
    {Patron1, <<"1", "2", "3", "4", "5">>}

\* the lending desk asked for status reports of every patron ID, its
\* history query working or not
ReportNext ==
    \/ AddBook(ServiceAddInputs, {TRUE})
    \/ Borrow(ServicePatrons, {TRUE}, MaxRecords)
    \/ Return(ServicePatrons, {TRUE})
    \/ StatusReport(PatronInputs)
    \/ ServiceClock
    \/ TakeResult

ReportSpec ==
    Init /\ [][ReportNext]_vars

Search ==
    /\ result.op = "idle"
    /\ UNCHANGED running
    /\ \E search_term \in SearchTerms, search_type \in SearchTypes :
          search_books_in_catalog(search_term, search_type)

\* the catalog filled and searched
SearchNext ==
    \/ AddBook(SearchAddInputs, {TRUE})
    \/ Search
    \/ TakeResult

SearchSpec ==
    Init /\ [][SearchNext]_vars

\* the one-copy book
RaceAddInputs ==
    {AddInput(<<"a">>, <<"b">>, Isbn1, IntCopies(1))}

EnterBorrow ==
    \E c \in Callers, patron_id \in RacePatrons, book_id \in RaceBookIds :
        Enter(c, "borrow", patron_id, book_id)

EnterReturn ==
    \E c \in Callers, patron_id \in RacePatrons, book_id \in RaceBookIds :
        Enter(c, "return", patron_id, book_id)

BorrowStep ==
    \E c \in Callers :
        /\ borrow_book_by_patron_step(c)
        /\ Len(records') <= MaxRecords

ReturnStep ==
    \E c \in Callers :
        return_book_by_patron_step(c)

Left ==
    \E c \in Callers :
        Leave(c)

\* two callers borrow and return the one-copy book of one catalog, their
\* persistence calls interleaved
RaceNext ==
    \/ AddBook(RaceAddInputs, {TRUE})
    \/ TakeResult
    \/ EnterBorrow
    \/ EnterReturn
    \/ BorrowStep
    \/ ReturnStep
    \/ Left

RaceSpec ==
    Init /\ [][RaceNext]_vars

BorrowRaises(patrons, cap) ==
    /\ result.op = "idle"
    /\ UNCHANGED running
    /\ \E patron_id \in patrons, book_id \in BookIdInputs, first \in BOOLEAN :
          /\ borrow_book_by_patron_raises(patron_id, book_id, first)
          /\ Len(records') <= cap

ReturnRaises(patrons) ==
    /\ result.op = "idle"
    /\ UNCHANGED running
    /\ \E patron_id \in patrons, book_id \in BookIdInputs, first \in BOOLEAN :
          return_book_by_patron_raises(patron_id, book_id, first)

\* the lending desk over collaborators that fail: a write succeeds, reports
\* failure or raises, and the gateway returns or raises
RaiseNext ==
    \/ AddBook(ServiceAddInputs, {TRUE})
    \/ Borrow(RaisePatrons, BOOLEAN, MaxRaiseRecords)
    \/ Return(RaisePatrons, BOOLEAN)
    \/ BorrowRaises(RaisePatrons, MaxRaiseRecords)
    \/ ReturnRaises(RaisePatrons)
    \/ Pay(RaisePatrons)
    \/ Refund
    \/ ServiceClock
    \/ TakeResult

RaiseSpec ==
    Init /\ [][RaiseNext]_vars

---------------------------------------------------------------------------
(* Properties.  Their vocabulary is written here from the statements, not  *)
(* taken from the handlers.                                                *)

\* a patron ID of exactly 6 digits
SixDigits(p) ==
    /\ Len(p) = 6
    /\ \A i \in 1..Len(p) : p[i] \in {"0", "1", "2", "3", "4", "5", "6", "7", "8", "9"}

\* the rows of a table that are active borrow records of patron p
ActiveOf(rs, p) ==
    {i \in 1..Len(rs) : rs[i].patron_id = p /\ rs[i].return_date = NoDate}

\* the rows of a table that are active borrow records of the pair (p, b)
ActiveRows(rs, p, b) ==
    {i \in ActiveOf(rs, p) : rs[i].book_id = b}

BookExists(b) ==
    b \in 1..Len(books)

\* table books with the available copies of book b changed by d
WithAvailability(b, d) ==
    [i \in 1..Len(books) |->
        IF i = b
        THEN [title |-> books[i].title, author |-> books[i].author,
              isbn |-> books[i].isbn, total_copies |-> books[i].total_copies,
              available_copies |-> books[i].available_copies + d]
        ELSE books[i]]

\* C1: in every state reached by addBook, borrow and return operations run
\* one at a time, writes that report failure included, every book has
\* 0 <= available_copies <= total_copies.
C1_AvailableWithinTotal ==
    \A i \in 1..Len(books) :
        /\ 0 <= books[i].available_copies
        /\ books[i].available_copies <= books[i].total_copies

\* C2 as stated: every borrow made while the patron holds 5 or more active
\* borrow records is answered with the borrowing-limit message.
C2_AlwaysLimitMessage ==
    [][(/\ result'.op = "borrow"
        /\ Cardinality(ActiveOf(records, result'.args[1])) >= 5)
       => (/\ ~result'.ok
           /\ result'.msg = "You have reached the maximum borrowing limit of 5 books.")]_vars

\* C2 (amended): a borrow made while the patron holds 5 or more active
\* borrow records (exactly 5 included) is never accepted and stores nothing;
\* it is answered with the borrowing-limit message when the book exists and
\* has a copy available, and with the book-not-found or not-available
\* message of the earlier check otherwise.  So, while every write succeeds,
\* no patron ever holds more than 5 active borrow records.
C2_BorrowLimit ==
    /\ [](\A p \in PatronInputs : Cardinality(ActiveOf(records, p)) <= 5)
    /\ [][(/\ result'.op = "borrow"
           /\ Cardinality(ActiveOf(records, result'.args[1])) >= 5)
          => (/\ ~result'.ok
              /\ records' = records
              /\ books' = books
              /\ result'.msg =
                   IF ~BookExists(result'.args[2])
                   THEN "Book not found."
                   ELSE IF books[result'.args[2]].available_copies <= 0
                   THEN "This book is currently not available."
                   ELSE "You have reached the maximum borrowing limit of 5 books.")]_vars

\* the patron holds exactly 5 active records and a further borrow has just
\* been refused with the limit message
C2_Witness ==
    /\ result.op = "borrow"
    /\ ~result.ok
    /\ result.msg = "You have reached the maximum borrowing limit of 5 books."
    /\ Cardinality(ActiveOf(records, result.args[1])) = 5

\* C3: in every state reached by borrow and return operations there is at
\* most one active borrow record for each (patron, book) pair.
C3_OneActivePerPair ==
    \A p \in PatronInputs, b \in BookIdInputs :
        Cardinality(ActiveRows(records, p, b)) <= 1

\* the fee of the statement, in mills, for a number of overdue days
StatedFee(days) ==
    Min(500 * Min(days, 7) + 1000 * Max(days - 7, 0), 15000)

\* C4: the fee calculator returns (0.00, 0) when a timestamp is absent or
\* the calendar date of now is not after that of due; otherwise days_overdue
\* is date(now) - date(due) and the fee is
\* min(0.50*min(days,7) + 1.00*max(days-7,0), 15.00): 4 days give 2.00,
\* 10 days 6.50 and 30 days 15.00.
C4_FeeFormula ==
    result.op = "compute_fee" =>
        LET due == result.args[1]
            end == result.args[2]
        IN  /\ IF due = NoDate \/ end = NoDate \/ DateOf(end) <= DateOf(due)
               THEN result.fee = 0 /\ result.days = 0
               ELSE /\ result.days = DateOf(end) - DateOf(due)
                    /\ result.fee = StatedFee(result.days)
            /\ result.days = 4 => result.fee = 2000
            /\ result.days = 10 => result.fee = 6500
            /\ result.days = 30 => result.fee = 15000

\* the calculator has answered for a due date and an instant 30 calendar
\* days later that are not at the same time of day
C4_Witness ==
    /\ result.op = "compute_fee"
    /\ result.days = 30
    /\ result.fee = 15000
    /\ result.args[2] - result.args[1] # Days(30)

\* C5: the fee returned by the fee calculator, and the fee_amount that
\* calculate_late_fee_for_book reports, lie between 0.00 and 15.00.
C5_FeeWithinCap ==
    result.op \in {"compute_fee", "late_fee"} =>
        /\ 0 <= result.fee
        /\ result.fee <= 15000

\* calculate_late_fee_for_book has reported the capped fee for a loan that
\* is more than 19 days overdue
C5_Witness ==
    /\ result.op = "late_fee"
    /\ result.msg = "ok"
    /\ result.days > 19
    /\ result.fee = 15000

\* C6: a successful borrow_book_by_patron(p, b) adds exactly one active
\* borrow record for (p, b) with due_date = borrow_date + 14 days and takes
\* exactly 1 from the available copies of book b; every other book and
\* every other borrow record stay as they were.
C6_BorrowEffect ==
    [][(result'.op = "borrow" /\ result'.ok)
       => (/\ records' = records \o
                <<[patron_id |-> result'.args[1], book_id |-> result'.args[2],
                   borrow_date |-> now, due_date |-> now + 14 * TicksPerDay,
                   return_date |-> NoDate]>>
           /\ books' = WithAvailability(result'.args[2], -1))]_vars

\* a borrow has succeeded on a later day, with another record and another
\* book in the tables
C6_Witness ==
    /\ result.op = "borrow"
    /\ result.ok
    /\ now > 0
    /\ Len(records) = 2
    /\ Len(books) = 2
    /\ records[2].borrow_date = now

\* C7: a successful return_book_by_patron(p, b) sets return_date on the
\* active record of (p, b) and adds exactly 1 to the available copies of
\* book b; every other book and the records of every other pair stay as
\* they were.
C7_ReturnEffect ==
    [][(result'.op = "return" /\ result'.ok)
       => LET p == result'.args[1]
              b == result'.args[2]
          IN  /\ ActiveRows(records, p, b) # {}
              /\ ActiveRows(records', p, b) = {}
              /\ Len(records') = Len(records)
              /\ \A i \in 1..Len(records) :
                    IF i \in ActiveRows(records, p, b)
                    THEN /\ records'[i].return_date = now
                         /\ records'[i].patron_id = p
                         /\ records'[i].book_id = b
                         /\ records'[i].borrow_date = records[i].borrow_date
                         /\ records'[i].due_date = records[i].due_date
                    ELSE records'[i] = records[i]
              /\ books' = WithAvailability(b, 1)]_vars

\* a return has succeeded on a later day while a record of another pair is
\* active
C7_Witness ==
    /\ result.op = "return"
    /\ result.ok
    /\ now > 0
    /\ \E i, j \in 1..Len(records) :
          /\ <<records[i].patron_id, records[i].book_id>> = result.args
          /\ records[i].return_date = now
          /\ <<records[j].patron_id, records[j].book_id>> # result.args
          /\ records[j].return_date = NoDate

\* C8: return_book_by_patron(p, b) with a well-formed patron ID and an
\* existing book but no active borrow record for exactly the pair (p, b)
\* fails with "No active borrow record found for this patron and book." and
\* changes no borrow record and no book, whatever p holds of other books
\* and whoever else holds b.
C8_ReturnWithoutRecord ==
    [][(/\ result'.op = "return"
        /\ SixDigits(result'.args[1])
        /\ BookExists(result'.args[2])
        /\ ActiveRows(records, result'.args[1], result'.args[2]) = {})
       => (/\ ~result'.ok
           /\ result'.msg = "No active borrow record found for this patron and book."
           /\ records' = records
           /\ books' = books)]_vars

\* the return of (p, b) has been refused while p holds another book and
\* another patron holds b
C8_Witness ==
    /\ result.op = "return"
    /\ result.msg = "No active borrow record found for this patron and book."
    /\ \E i, j \in 1..Len(records) :
          /\ records[i].patron_id = result.args[1]
          /\ records[i].book_id # result.args[2]
          /\ records[i].return_date = NoDate
          /\ records[j].patron_id # result.args[1]
          /\ records[j].book_id = result.args[2]
          /\ records[j].return_date = NoDate

\* C9: after a successful return_book_by_patron(p, b), a second return of
\* (p, b) with no borrow of b by p in between fails and adds no available
\* copy: a successful return leaves the pair without an active record, only
\* a borrow of the pair gives it one, and a return of a pair without one
\* fails and changes no book.
C9_NoDoubleReturn ==
    [][/\ (result'.op = "return" /\ result'.ok)
          => ActiveRows(records', result'.args[1], result'.args[2]) = {}
       /\ \A p \in PatronInputs, b \in BookIdInputs :
            ~(ActiveRows(records', p, b) \subseteq ActiveRows(records, p, b))
               => (result'.op = "borrow" /\ result'.args = <<p, b>>)
       /\ (/\ result'.op = "return"
           /\ ActiveRows(records, result'.args[1], result'.args[2]) = {})
          => (~result'.ok /\ books' = books)]_vars

\* the pair's only record is a returned one and a further return of the
\* pair has just failed
C9_Witness ==
    /\ result.op = "return"
    /\ ~result.ok
    /\ ActiveRows(records, result.args[1], result.args[2]) = {}
    /\ \E i \in 1..Len(records) :
          /\ <<records[i].patron_id, records[i].book_id>> = result.args
          /\ records[i].return_date # NoDate

\* C10: a borrow_book_by_patron call refused for an ill-formed patron ID
\* (not exactly 6 digits), a book that does not exist, available_copies = 0
\* or the borrow limit returns (False, message) and changes nothing: no
\* borrow record is inserted and no availability is adjusted.
C10_RejectedBorrow ==
    [][(/\ result'.op = "borrow"
        /\ \/ ~SixDigits(result'.args[1])
           \/ ~BookExists(result'.args[2])
           \/ books[result'.args[2]].available_copies = 0
           \/ Cardinality(ActiveOf(records, result'.args[1])) >= 5)
       => (/\ ~result'.ok
           /\ result'.msg \in
                {"Invalid patron ID. Must be exactly 6 digits.",
                 "Book not found.",
                 "This book is currently not available.",
                 "You have reached the maximum borrowing limit of 5 books."}
           /\ records' = records
           /\ books' = books)]_vars

\* a borrow has been refused for the limit while the book had a copy
\* available
C10_Witness ==
    /\ result.op = "borrow"
    /\ result.msg = "You have reached the maximum borrowing limit of 5 books."
    /\ books[result.args[2]].available_copies > 0
    /\ Cardinality(ActiveOf(records, result.args[1])) >= 5

\* the mutating calls of the persistence layer among the calls of an
\* operation, in the order they were made
WritesOf(cs) ==
    SelectSeq(cs, LAMBDA c : c.fn \in {"insert_book", "insert_borrow_record",
                                       "update_borrow_record_return_date",
                                       "update_book_availability"})

\* C11: in borrow and in return a persistence failure at either mutating
\* step makes the operation report a database-error failure, with no
\* rollback.  When the first write (insert record / set return_date) reports
\* failure, the second write is never attempted and books and records are
\* unchanged; when the second write (availability -1 / +1) reports failure
\* after the first succeeded, the operation reports failure, the books are
\* unchanged and the effect of the first write remains: the new active
\* record in borrow, the pair's record marked returned in return.
C11_WriteFailure ==
    [][result'.op \in {"borrow", "return"}
       => LET w == WritesOf(calls')
              p == result'.args[1]
              b == result'.args[2]
          IN  /\ (Len(w) >= 1 /\ ~w[1].answer)
                 => (/\ Len(w) = 1
                     /\ w[1].fn \in {"insert_borrow_record",
                                     "update_borrow_record_return_date"}
                     /\ ~result'.ok
                     /\ result'.msg \in
                          {"Database error occurred while creating borrow record.",
                           "Database error while recording the return."}
                     /\ records' = records
                     /\ books' = books)
              /\ (Len(w) >= 2 /\ w[1].answer /\ ~w[2].answer)
                 => (/\ Len(w) = 2
                     /\ w[2].fn = "update_book_availability"
                     /\ ~result'.ok
                     /\ result'.msg \in
                          {"Database error occurred while updating book availability.",
                           "Database error while updating book availability."}
                     /\ books' = books
                     /\ IF result'.op = "borrow"
                        THEN records' = records \o
                               <<[patron_id |-> p, book_id |-> b, borrow_date |-> now,
                                  due_date |-> now + 14 * TicksPerDay,
                                  return_date |-> NoDate]>>
                        ELSE /\ ActiveRows(records, p, b) # {}
                             /\ ActiveRows(records', p, b) = {}
                             /\ \A i \in ActiveRows(records, p, b) :
                                   records'[i].return_date = now)]_vars

\* a borrow has reported the availability error: its record is stored and
\* active while the book still shows every copy available
C11_Witness ==
    /\ result.op = "borrow"
    /\ ~result.ok
    /\ result.msg = "Database error occurred while updating book availability."
    /\ Len(WritesOf(calls)) = 2
    /\ records[Len(records)].patron_id = result.args[1]
    /\ records[Len(records)].book_id = result.args[2]
    /\ records[Len(records)].return_date = NoDate
    /\ books[result.args[2]].available_copies = books[result.args[2]].total_copies

\* C12: the life of a borrow record is no record -> borrowed -> returned,
\* and returned is terminal.  No borrow, return, late-fee, status-report or
\* payment operation removes a record, or changes or clears a record whose
\* return_date is set; the only change a record ever sees is a return
\* setting the return_date of an active record; and a successful borrow,
\* also of a pair that has a returned record, adds a fresh active record
\* and leaves the returned one as it is.
C12_ReturnedIsTerminal ==
    [][/\ Len(records') >= Len(records)
       /\ \A i \in 1..Len(records) :
            /\ records[i].return_date # NoDate => records'[i] = records[i]
            /\ records'[i] # records[i]
               => (/\ result'.op = "return"
                   /\ records[i].return_date = NoDate
                   /\ records'[i].return_date = now
                   /\ records'[i].patron_id = records[i].patron_id
                   /\ records'[i].book_id = records[i].book_id
                   /\ records'[i].borrow_date = records[i].borrow_date
                   /\ records'[i].due_date = records[i].due_date)
       /\ (result'.op = "borrow" /\ result'.ok)
          => (/\ Len(records') = Len(records) + 1
              /\ records'[Len(records')].patron_id = result'.args[1]
              /\ records'[Len(records')].book_id = result'.args[2]
              /\ records'[Len(records')].return_date = NoDate)
       /\ result'.op \in {"late_fee", "status", "pay"} => records' = records]_vars

\* a pair with a returned record has borrowed again on a later day: the
\* returned record keeps its return date beside the fresh active one
C12_Witness ==
    /\ result.op = "borrow"
    /\ result.ok
    /\ Len(records) = 2
    /\ <<records[1].patron_id, records[1].book_id>> = result.args
    /\ records[1].return_date # NoDate
    /\ records[1].return_date < now
    /\ <<records[2].patron_id, records[2].book_id>> = result.args
    /\ records[2].return_date = NoDate

\* C13: a successful return computes the fee from the due_date of an active
\* record of the pair, as it stands before the record is marked returned,
\* and from the return instant; its message reports a late fee, with the
\* amount and the overdue days, if and only if that fee is > 0, and an
\* on-time return with no late fee otherwise (4 days overdue: $2.00).
C13_ReturnMessage ==
    [][(result'.op = "return" /\ result'.ok)
       => \E i \in ActiveRows(records, result'.args[1], result'.args[2]) :
             LET days == DateOf(now) - DateOf(records[i].due_date)
                 fee  == IF days > 0 THEN StatedFee(days) ELSE 0
             IN  /\ records'[i].return_date = now
                 /\ IF fee > 0
                    THEN /\ result'.msg = "Returned. Late fee."
                         /\ result'.fee = fee
                         /\ result'.days = days
                    ELSE /\ result'.msg = "Returned on time. No late fee."
                         /\ result'.fee = 0
                 /\ days = 4 => result'.fee = 2000]_vars

\* a return made 4 days after the due date has reported a late fee of $2.00
C13_Witness ==
    /\ result.op = "return"
    /\ result.ok
    /\ result.msg = "Returned. Late fee."
    /\ result.days = 4
    /\ result.fee = 2000
    /\ \E i \in 1..Len(records) :
          /\ <<records[i].patron_id, records[i].book_id>> = result.args
          /\ records[i].return_date = now
          /\ DateOf(now) - DateOf(records[i].due_date) = 4

\* C14: calculate_late_fee_for_book(p, b) is read-only and its status is
\* exactly one of three: not_found if and only if (p, b) has no active
\* record (then fee 0 and days 0); not_overdue if and only if the active
\* record has days_overdue = 0 (then fee 0); ok if and only if
\* days_overdue > 0, and then fee_amount > 0.
C14_LateFeeStatus ==
    [][result'.op = "late_fee"
       => LET rows == ActiveRows(records, result'.args[1], result'.args[2])
          IN  /\ books' = books
              /\ records' = records
              /\ now' = now
              /\ result'.msg \in {"not_found", "not_overdue", "ok"}
              /\ result'.msg = "not_found" <=> rows = {}
              /\ rows = {} => (result'.fee = 0 /\ result'.days = 0)
              /\ rows # {}
                 => \E i \in rows :
                       LET late == DateOf(now) - DateOf(records[i].due_date)
                       IN  /\ result'.days = IF late > 0 THEN late ELSE 0
                           /\ result'.msg = "not_overdue" <=> result'.days = 0
                           /\ result'.msg = "ok" <=> result'.days > 0
                           /\ result'.days = 0 => result'.fee = 0
                           /\ result'.days > 0 => result'.fee > 0]_vars

\* the fee of an overdue loan has been asked while the patron also holds a
\* returned record of the same book
C14_Witness ==
    /\ result.op = "late_fee"
    /\ result.msg = "ok"
    /\ result.days > 0
    /\ result.fee > 0
    /\ \E i, j \in 1..Len(records) :
          /\ <<records[i].patron_id, records[i].book_id>> = result.args
          /\ records[i].return_date = NoDate
          /\ <<records[j].patron_id, records[j].book_id>> = result.args
          /\ records[j].return_date # NoDate

C16_FeeMonotone ==
    (/\ result.op = "compute_fee_twice"
     /\ result.args[1] # NoDate
     /\ result.args[2] # NoDate
     /\ result.args[3] # NoDate)
       => (/\ result.args[2] <= result.args[3]
              => (/\ result.first.fee <= result.second.fee
                  /\ result.first.days <= result.second.days)
           /\ result.first.days <= result.second.days
              => result.first.fee <= result.second.fee)

\* the fee has been computed 7 days and 8 days after one due date: the later
\* fee is the larger
C16_Witness ==
    /\ result.op = "compute_fee_twice"
    /\ result.args[1] # NoDate
    /\ result.args[2] < result.args[3]
    /\ result.first.days = 7
    /\ result.second.days = 8
    /\ result.first.fee < result.second.fee

\* the calls an operation made to the payment gateway
GatewayCallsOf(cs) ==
    SelectSeq(cs, LAMBDA c : c.fn \in {"process_payment", "refund_payment"})

\* C17: pay_late_fees whose computed fee for (patron, book) is zero (the
\* pair has no active record, or its active record is not overdue; the fee
\* is never negative) fails with a null transaction id and never invokes
\* the gateway's process_payment; its message is "No late fees to pay for
\* this book." whenever the fee is computed, that is whenever the patron ID
\* is well formed.
C17_NoFeeNoGateway ==
    [][(/\ result'.op = "pay"
        /\ \A i \in ActiveRows(records, result'.args[1], result'.args[2]) :
              DateOf(now) <= DateOf(records[i].due_date))
       => (/\ ~result'.ok
           /\ result'.transaction_id = <<>>
           /\ GatewayCallsOf(calls') = <<>>
           /\ SixDigits(result'.args[1])
              => (/\ result'.msg = "No late fees to pay for this book."
                  /\ result'.detail = ""))]_vars

\* a payment has been refused for a loan that is not overdue, on a later day
C17_Witness ==
    /\ result.op = "pay"
    /\ result.msg = "No late fees to pay for this book."
    /\ now > 0
    /\ \E i \in ActiveRows(records, result.args[1], result.args[2]) :
          DateOf(now) <= DateOf(records[i].due_date)

\* C18: an exception raised by the gateway during process_payment or
\* refund_payment is never propagated: pay_late_fees returns (False,
\* "Payment processing error: ..." with the text of the exception, None) and
\* refund_late_fee_payment returns (False, "Refund processing error: ..."
\* with the text of the exception), and neither changes a book or a record.
C18_GatewayFault ==
    [][(/\ result'.op \in {"pay", "refund"}
        /\ \E i \in 1..Len(calls') :
              /\ calls'[i].fn \in {"process_payment", "refund_payment"}
              /\ calls'[i].answer.kind = "raise")
       => LET raised == GatewayCallsOf(calls')[1].answer
          IN  /\ ~result'.ok
              /\ result'.detail = raised.message
              /\ result'.msg = IF result'.op = "pay"
                               THEN "Payment processing error:"
                               ELSE "Refund processing error:"
              /\ result'.op = "pay" => result'.transaction_id = <<>>
              /\ books' = books
              /\ records' = records]_vars

\* the gateway has raised while the fee of an overdue loan was being paid
C18_Witness ==
    /\ result.op = "pay"
    /\ ~result.ok
    /\ result.msg = "Payment processing error:"
    /\ result.detail = "Network error"
    /\ Len(GatewayCallsOf(calls)) = 1
    /\ GatewayCallsOf(calls)[1].answer.kind = "raise"
    /\ GatewayCallsOf(calls)[1].args[2] > 0

\* C19: pay_late_fees returns a non-null transaction id if and only if it
\* returns success, which happens exactly when the gateway's
\* process_payment was called and reported success; the returned id is then
\* the gateway's id (and the message carries the gateway's message), and a
\* failure reported by the gateway yields (False, "Payment failed: ...",
\* None).
C19_TransactionId ==
    [][result'.op = "pay"
       => LET g == GatewayCallsOf(calls')
          IN  /\ Len(g) <= 1
              /\ result'.transaction_id # <<>> <=> result'.ok
              /\ result'.ok <=> (/\ Len(g) = 1
                                 /\ g[1].fn = "process_payment"
                                 /\ g[1].answer.kind = "return"
                                 /\ g[1].answer.success)
              /\ result'.ok
                 => (/\ result'.transaction_id = <<g[1].answer.transaction_id>>
                     /\ result'.msg = "Payment successful!"
                     /\ result'.detail = g[1].answer.message)
              /\ (/\ Len(g) = 1
                  /\ g[1].answer.kind = "return"
                  /\ ~g[1].answer.success)
                 => (/\ ~result'.ok
                     /\ result'.msg = "Payment failed:"
                     /\ result'.detail = g[1].answer.message
                     /\ result'.transaction_id = <<>>)]_vars

\* a payment has succeeded and carries the id the gateway gave, txn_2
C19_Witness ==
    /\ result.op = "pay"
    /\ result.ok
    /\ result.transaction_id = <<(<<"t", "x", "n", "_", "2">>)>>
    /\ Len(GatewayCallsOf(calls)) = 1
    /\ GatewayCallsOf(calls)[1].answer.success
    /\ GatewayCallsOf(calls)[1].answer.transaction_id = <<"t", "x", "n", "_", "2">>

\* a transaction id of the recognized shape: it starts with "txn_"
TxnShaped(t) ==
    /\ Len(t) >= 4
    /\ t[1] = "t"
    /\ t[2] = "x"
    /\ t[3] = "n"
    /\ t[4] = "_"

\* C20: refund_late_fee_payment rejects, without ever calling the gateway's
\* refund_payment, every request whose transaction id is empty or does not
\* start with "txn_", whose amount is <= 0, or whose amount is > 15.00; an
\* amount of exactly 15.00 passes validation, and a request that passes is
\* handed to the gateway once.
C20_RefundValidation ==
    [][result'.op = "refund"
       => LET t   == result'.args[1]
              a   == result'.args[2]
              bad == ~TxnShaped(t) \/ a <= 0 \/ a > 15000
          IN  /\ bad
                 => (/\ ~result'.ok
                     /\ GatewayCallsOf(calls') = <<>>
                     /\ result'.msg =
                          IF ~TxnShaped(t) THEN "Invalid transaction ID."
                          ELSE IF a <= 0 THEN "Refund amount must be greater than 0."
                          ELSE "Refund amount exceeds maximum late fee.")
              /\ ~bad
                 => (/\ Len(GatewayCallsOf(calls')) = 1
                     /\ GatewayCallsOf(calls')[1].fn = "refund_payment"
                     /\ GatewayCallsOf(calls')[1].args = <<t, a>>)
              /\ (TxnShaped(t) /\ a = 15000)
                 => result'.msg \notin {"Invalid transaction ID.",
                                        "Refund amount must be greater than 0.",
                                        "Refund amount exceeds maximum late fee."}]_vars

\* a refund of exactly 15.00 has passed validation and gone to the gateway
C20_Witness ==
    /\ result.op = "refund"
    /\ result.ok
    /\ result.args[2] = 15000
    /\ Len(GatewayCallsOf(calls)) = 1
    /\ GatewayCallsOf(calls)[1].args[2] = 15000

\* C21: a refund_late_fee_payment request that passes validation (a
\* transaction id starting with "txn_", 0 < amount <= 15.00) is handed to
\* the gateway's refund_payment with the same transaction id and amount,
\* and when the gateway returns, the success flag of the result is the
\* gateway's boolean outcome: True gives success with the gateway's message,
\* False gives the failure "Refund failed: ..." with the gateway's message.
C21_RefundDelegated ==
    [][(/\ result'.op = "refund"
        /\ TxnShaped(result'.args[1])
        /\ result'.args[2] > 0
        /\ result'.args[2] <= 15000)
       => LET g == GatewayCallsOf(calls')
          IN  /\ Len(g) = 1
              /\ g[1].fn = "refund_payment"
              /\ g[1].args = result'.args
              /\ g[1].answer.kind = "return"
                 => (/\ result'.ok = g[1].answer.success
                     /\ result'.detail = g[1].answer.message
                     /\ result'.msg = IF g[1].answer.success
                                      THEN ""
                                      ELSE "Refund failed:")]_vars

\* the gateway has refused a refund that passed validation
C21_Witness ==
    /\ result.op = "refund"
    /\ ~result.ok
    /\ result.msg = "Refund failed:"
    /\ result.detail = "Invalid refund amount"
    /\ Len(GatewayCallsOf(calls)) = 1
    /\ GatewayCallsOf(calls)[1].args = result.args
    /\ ~GatewayCallsOf(calls)[1].answer.success

\* the calls of a log made to collaborator operation fn
CallsTo(cs, fn) ==
    SelectSeq(cs, LAMBDA c : c.fn = fn)

\* C22: nothing is retried.  Within one pay_late_fees or
\* refund_late_fee_payment the gateway operation is invoked at most once, and
\* within one borrow or return each mutating persistence call is invoked at
\* most once, whether the call succeeds, reports failure or raises.
C22_NoRetry ==
    [][/\ result'.op \in {"pay", "refund"}
          => Len(GatewayCallsOf(calls')) <= 1
       /\ result'.op \in {"borrow", "return"}
          => \A fn \in {"insert_borrow_record", "update_borrow_record_return_date",
                        "update_book_availability"} :
                Len(CallsTo(calls', fn)) <= 1]_vars

\* a borrow has ended on a write that raised, after its first write succeeded
C22_Witness ==
    /\ result.op = "borrow"
    /\ Len(WritesOf(calls)) = 2
    /\ WritesOf(calls)[2].fn = "update_book_availability"
    /\ "raised" \in DOMAIN result

\* C23: get_patron_status_report for a patron ID that is not exactly 6
\* digits returns status invalid_patron_id with empty current_borrows,
\* current_borrow_count 0, total_late_fees 0 and empty history, whatever
\* borrow records are persisted, and reads nothing from persistence.
C23_InvalidPatronReport ==
    [][(result'.op = "status" /\ ~SixDigits(result'.args[1]))
       => /\ result'.msg = "invalid_patron_id"
          /\ result'.current_borrows = <<>>
          /\ result'.current_borrow_count = 0
          /\ result'.total_late_fees = 0
          /\ result'.history = <<>>
          /\ calls' = <<>>
          /\ UNCHANGED <<books, records>>]_vars

\* a report asked for a six-character ID that has a letter in it, while
\* borrow records are persisted
C23_Witness ==
    /\ result.op = "status"
    /\ result.msg = "invalid_patron_id"
    /\ Len(result.args[1]) = 6
    /\ records # <<>>

\* the sum of the late_fee fields of the entries of a report
RECURSIVE ListedFees(_)
ListedFees(entries) ==
    IF entries = <<>> THEN 0 ELSE Head(entries).late_fee + ListedFees(Tail(entries))

\* the one-to-one assignments of the entries of a report to the active
\* borrow records of patron p
Assignments(entries, p) ==
    {f \in [1..Len(entries) -> ActiveOf(records, p)] :
        \A i, j \in 1..Len(entries) : f[i] = f[j] => i = j}

\* C24: for a valid patron the report has exactly one current-borrow entry
\* per active borrow record of that patron (none of another patron, none of
\* a returned record), current_borrow_count is the number of those records
\* and total_late_fees is the sum of the late_fee of the listed entries.
C24_CurrentBorrows ==
    [][(result'.op = "status" /\ SixDigits(result'.args[1]))
       => LET p  == result'.args[1]
              cb == result'.current_borrows
          IN  /\ Len(cb) = Cardinality(ActiveOf(records, p))
              /\ \E f \in Assignments(cb, p) :
                    \A i \in 1..Len(cb) :
                        /\ cb[i].book_id = records[f[i]].book_id
                        /\ cb[i].due_date = DateOf(records[f[i]].due_date)
              /\ result'.current_borrow_count = Cardinality(ActiveOf(records, p))
              /\ result'.total_late_fees = ListedFees(cb)]_vars

\* a report lists two overdue loans of the patron
C24_Witness ==
    /\ result.op = "status"
    /\ result.current_borrow_count = 2
    /\ \A i \in 1..2 : result.current_borrows[i].late_fee > 0
    /\ result.total_late_fees = ListedFees(result.current_borrows)

\* the entry a report lists for the active borrow record r
Listing(r) ==
    LET days == Max(DateOf(now) - DateOf(r.due_date), 0)
    IN  [book_id |-> r.book_id, title |-> books[r.book_id].title,
         due_date |-> DateOf(r.due_date), days_overdue |-> days,
         late_fee |-> StatedFee(days)]

\* C25: when assembling the history fails, the report of a valid patron is
\* still returned with status ok and an empty history, and its
\* current_borrows, current_borrow_count and total_late_fees are what the
\* persisted records and the clock make them, exactly as when the history
\* succeeds; the failure is never raised to the caller.
C25_HistoryFailure ==
    [][(/\ result'.op = "status"
        /\ SixDigits(result'.args[1])
        /\ ~CallsTo(calls', "get_db_connection")[1].answer)
       => LET p  == result'.args[1]
              cb == result'.current_borrows
          IN  /\ result'.msg = "ok"
              /\ result'.history = <<>>
              /\ Len(cb) = Cardinality(ActiveOf(records, p))
              /\ \E f \in Assignments(cb, p) :
                    \A i \in 1..Len(cb) : cb[i] = Listing(records[f[i]])
              /\ result'.current_borrow_count = Len(cb)
              /\ result'.total_late_fees = ListedFees(cb)]_vars

\* the history of a patron with a loan and a returned loan has failed
C25_Witness ==
    /\ result.op = "status"
    /\ result.msg = "ok"
    /\ ~CallsTo(calls, "get_db_connection")[1].answer
    /\ result.history = <<>>
    /\ result.current_borrow_count = 1
    /\ \E i \in 1..Len(records) :
          /\ records[i].patron_id = result.args[1]
          /\ records[i].return_date # NoDate

\* a text without the blanks at its two ends
RECURSIVE Trim(_)
Trim(s) ==
    IF s = <<>> THEN s
    ELSE IF Head(s) = " " THEN Trim(Tail(s))
    ELSE IF s[Len(s)] = " " THEN Trim(SubSeq(s, 1, Len(s) - 1))
    ELSE s

ThirteenDigits(isbn) ==
    /\ Len(isbn) = 13
    /\ \A i \in 1..Len(isbn) : isbn[i] \in {"0", "1", "2", "3", "4", "5", "6", "7", "8", "9"}

\* the title and the author of an add request are as the catalog wants them
ValidNames(a) ==
    /\ Len(Trim(a[1])) \in 1..200
    /\ Len(Trim(a[2])) \in 1..100

\* the copy count of an add request is a positive integer
ValidCopies(a) ==
    /\ a[4].type = "int"
    /\ a[4].val > 0

\* an add request <<title, author, isbn, total_copies>> the catalog accepts
ValidBook(a) ==
    /\ ValidNames(a)
    /\ ThirteenDigits(a[3])
    /\ ValidCopies(a)

\* a book of the catalog has this ISBN
IsbnStored(isbn) ==
    \E i \in 1..Len(books) : books[i].isbn = isbn

\* C26: addBook round trip.  Adding a valid book whose ISBN is fresh
\* succeeds and stores it; any later add with an ISBN already in the catalog
\* fails and stores nothing, as a duplicate when the request is otherwise
\* valid; so no two books of the catalog ever share an ISBN.
C26_AddRoundTrip ==
    [][result'.op = "add_book"
       => LET a == result'.args
          IN  /\ (ValidBook(a) /\ ~IsbnStored(a[3]))
                 => /\ result'.ok
                    /\ Len(books') = Len(books) + 1
                    /\ SubSeq(books', 1, Len(books)) = books
                    /\ books'[Len(books')].isbn = a[3]
              /\ IsbnStored(a[3])
                 => /\ ~result'.ok
                    /\ books' = books
                    /\ ValidBook(a) => result'.msg = "A book with this ISBN already exists."
              /\ \A i, j \in 1..Len(books') :
                    books'[i].isbn = books'[j].isbn => i = j]_vars

\* a valid book has been added a second time and refused as a duplicate
C26_Witness ==
    /\ result.op = "add_book"
    /\ ValidBook(result.args)
    /\ ~result.ok
    /\ result.msg = "A book with this ISBN already exists."
    /\ IsbnStored(result.args[3])

\* C27: addBook rejects every ISBN that is not exactly 13 digits, one of
\* another length or one of 13 characters that are not all digits, and
\* stores nothing, with the message "ISBN must be exactly 13 digits." when
\* title and author are valid; so every stored ISBN is 13 digits.
C27_IsbnThirteenDigits ==
    [][/\ (result'.op = "add_book" /\ ~ThirteenDigits(result'.args[3]))
          => /\ ~result'.ok
             /\ books' = books
             /\ ValidNames(result'.args) => result'.msg = "ISBN must be exactly 13 digits."
       /\ \A i \in 1..Len(books') : ThirteenDigits(books'[i].isbn)]_vars

\* C28: a successful addBook stores the new book with available_copies equal
\* to total_copies, the positive integer of the request; an add rejected by
\* validation (title, author, ISBN length or copy count) stores nothing.
C28_AvailableIsTotal ==
    [][result'.op = "add_book"
       => LET a == result'.args
          IN  /\ result'.ok
                 => /\ ValidCopies(a)
                    /\ Len(books') = Len(books) + 1
                    /\ SubSeq(books', 1, Len(books)) = books
                    /\ books'[Len(books')].total_copies = a[4].val
                    /\ books'[Len(books')].available_copies = a[4].val
              /\ (~ValidNames(a) \/ Len(a[3]) # 13 \/ ~ValidCopies(a))
                 => /\ ~result'.ok
                    /\ books' = books]_vars

\* the three-copy book has been stored with three copies available
C28_Witness ==
    /\ result.op = "add_book"
    /\ result.ok
    /\ result.args[4].val = 3
    /\ books[Len(books)].total_copies = 3
    /\ books[Len(books)].available_copies = 3

\* letter c in capitals, any other character as it is
Capital(c) ==
    CASE c = "a" -> "A" [] c = "b" -> "B" [] c = "c" -> "C" [] c = "d" -> "D"
      [] c = "e" -> "E" [] c = "f" -> "F" [] c = "g" -> "G" [] c = "h" -> "H"
      [] c = "i" -> "I" [] c = "j" -> "J" [] c = "k" -> "K" [] c = "l" -> "L"
      [] c = "m" -> "M" [] c = "n" -> "N" [] c = "o" -> "O" [] c = "p" -> "P"
      [] c = "q" -> "Q" [] c = "r" -> "R" [] c = "s" -> "S" [] c = "t" -> "T"
      [] c = "u" -> "U" [] c = "v" -> "V" [] c = "w" -> "W" [] c = "x" -> "X"
      [] c = "y" -> "Y" [] c = "z" -> "Z" [] OTHER -> c

\* text a is part of text b when the case of letters is left aside
Within(a, b) ==
    \E i \in 1..(Len(b) - Len(a) + 1) :
        \A k \in 1..Len(a) : Capital(b[i + k - 1]) = Capital(a[k])

\* the digits of a text, in their order
RECURSIVE DigitsOf(_)
DigitsOf(s) ==
    IF s = <<>> THEN <<>>
    ELSE IF Head(s) \in {"0", "1", "2", "3", "4", "5", "6", "7", "8", "9"}
    THEN <<Head(s)>> \o DigitsOf(Tail(s))
    ELSE DigitsOf(Tail(s))

\* the ids of the books a search has returned
FoundIds(r) ==
    {r.found[i].id : i \in 1..Len(r.found)}

\* a search term is absent or blank
BlankTerm(t) ==
    t = <<>> \/ Trim(t[1]) = <<>>

\* a search has returned exactly the books of the catalog that satisfy
\* Match, each once
ReturnsExactly(r, Match(_)) ==
    /\ FoundIds(r) = {i \in 1..Len(books) : Match(i)}
    /\ Len(r.found) = Cardinality(FoundIds(r))

\* the name of a search type once trimmed, case left aside
TypeIs(type, name) ==
    /\ type # <<>>
    /\ Len(Trim(type[1])) = Len(name)
    /\ \A k \in 1..Len(name) : Capital(Trim(type[1])[k]) = Capital(name[k])

AvailableOf(bs, b) ==
    bs[b].available_copies

\* caller c has finished the operation op with success
Succeeded(c, op) ==
    /\ running[c].op = op
    /\ running[c].pc = "done"
    /\ running[c].ok

\* C30: check and write are not atomic.  When the persistence calls of two
\* operations on the same (patron, book) pair interleave, a caller that has
\* passed its checks carries out its two writes and succeeds whatever the
\* other caller has written since: a borrow inserts an active record and
\* takes one copy off available_copies, a return sets the return date and
\* adds one copy.  So two returns against a single active record can both
\* succeed and increment available_copies twice, and two borrows against a
\* single available copy can both succeed, creating two active records and
\* decrementing available_copies twice.
C30_CheckThenAct ==
    [][\A c \in Callers :
          LET r == running[c]
              q == running'[c]
          IN  (r.pc \in {"insert", "mark", "update"} /\ q # r)
              => /\ r.pc = "insert"
                    => /\ q.pc = "update"
                       /\ Len(records') = Len(records) + 1
                       /\ records'[Len(records')].patron_id = r.patron_id
                       /\ records'[Len(records')].book_id = r.book_id
                       /\ records'[Len(records')].return_date = NoDate
                 /\ r.pc = "mark"
                    => /\ q.pc = "update"
                       /\ ActiveRows(records', r.patron_id, r.book_id) = {}
                 /\ r.pc = "update"
                    => /\ q.pc = "done"
                       /\ q.ok
                       /\ AvailableOf(books', r.book_id) =
                             AvailableOf(books, r.book_id)
                             + (IF r.op = "borrow" THEN -1 ELSE 1)]_vars

\* two returns of one pair have both succeeded against the single active
\* record both had read: it is returned once and the one-copy book has two
\* copies available
C30_Witness ==
    /\ Succeeded(1, "return")
    /\ Succeeded(2, "return")
    /\ running[1].patron_id = running[2].patron_id
    /\ running[1].book_id = running[2].book_id
    /\ running[1].active = running[2].active
    /\ Len(records) = 1
    /\ records[1].return_date # NoDate
    /\ books[1].total_copies = 1
    /\ books[1].available_copies = 2

\* two borrows of one pair have both succeeded against the single copy both
\* had read as available: the pair has two active records and the book has
\* -1 copies available
C30_Witness_Borrows ==
    /\ Succeeded(1, "borrow")
    /\ Succeeded(2, "borrow")
    /\ running[1].book[1].available_copies = 1
    /\ running[2].book[1].available_copies = 1
    /\ Cardinality(ActiveRows(records, running[1].patron_id, running[1].book_id)) = 2
    /\ books[1].available_copies = -1

\* the names of the persistence functions an operation has called, in order
FunctionsOf(cs) ==
    [i \in 1..Len(cs) |-> cs[i].fn]

\* C31: borrow_book_by_patron evaluates its rejection reasons in a fixed
\* priority and reports only the first that applies: an invalid patron ID
\* (before any persistence read), then book not found, then book not
\* available, then borrow limit reached; the patron's borrow count is read
\* only after the book is known to exist and to be available.
C31_RejectionPriority ==
    [][result'.op = "borrow"
       => LET p == result'.args[1]
              b == result'.args[2]
          IN  IF ~SixDigits(p)
              THEN /\ ~result'.ok
                   /\ result'.msg = "Invalid patron ID. Must be exactly 6 digits."
                   /\ calls' = <<>>
              ELSE IF ~BookExists(b)
              THEN /\ ~result'.ok
                   /\ result'.msg = "Book not found."
                   /\ FunctionsOf(calls') = <<"get_book_by_id">>
              ELSE IF books[b].available_copies <= 0
              THEN /\ ~result'.ok
                   /\ result'.msg = "This book is currently not available."
                   /\ FunctionsOf(calls') = <<"get_book_by_id">>
              ELSE IF Cardinality(ActiveOf(records, p)) >= 5
              THEN /\ ~result'.ok
                   /\ result'.msg = "You have reached the maximum borrowing limit of 5 books."
                   /\ FunctionsOf(calls') = <<"get_book_by_id", "get_patron_borrow_count">>
              ELSE /\ result'.msg \notin
                        {"Invalid patron ID. Must be exactly 6 digits.",
                         "Book not found.",
                         "This book is currently not available.",
                         "You have reached the maximum borrowing limit of 5 books."}
                   /\ SubSeq(FunctionsOf(calls'), 1, 2) =
                         <<"get_book_by_id", "get_patron_borrow_count">>]_vars

\* a patron at the limit has asked for a book without a copy left and has
\* been told of the book, the borrow count never read
C31_Witness ==
    /\ result.op = "borrow"
    /\ result.msg = "This book is currently not available."
    /\ Cardinality(ActiveOf(records, result.args[1])) >= 5
    /\ CallsTo(calls, "get_patron_borrow_count") = <<>>

\* the rows of a table that are active borrow records of book b
ActiveOfBook(rs, b) ==
    {i \in 1..Len(rs) : rs[i].book_id = b /\ rs[i].return_date = NoDate}

\* C32: conservation of copies.  After any sequence of addBook, borrow and
\* return operations run one at a time with every persistence call
\* succeeding, each book's available_copies plus the number of active borrow
\* records of that book equals its total_copies.
C32_Conservation ==
    \A b \in 1..Len(books) :
        books[b].available_copies + Cardinality(ActiveOfBook(records, b))
            = books[b].total_copies

\* an amount that refund_late_fee_payment does not refuse: above 0.00 and
\* not above 15.00, in mills
Refundable(amount) ==
    /\ amount > 0
    /\ amount <= 15000

\* C33: every amount pay_late_fees passes to the gateway's process_payment
\* is strictly greater than 0 and at most 15.00 and is the fee computed at
\* that instant for an active record of the (patron, book) pair; so an
\* amount charged for one book passes the amount validation of
\* refund_late_fee_payment: a refund of an amount in that range under a
\* well-formed transaction id reaches the gateway.
C33_ChargedAmount ==
    [][/\ result'.op = "pay"
          => \A k \in 1..Len(GatewayCallsOf(calls')) :
                LET amount == GatewayCallsOf(calls')[k].args[2]
                IN  /\ GatewayCallsOf(calls')[k].fn = "process_payment"
                    /\ Refundable(amount)
                    /\ \E i \in ActiveRows(records, result'.args[1], result'.args[2]) :
                          amount = StatedFee(DateOf(now) - DateOf(records[i].due_date))
       /\ (/\ result'.op = "refund"
           /\ TxnShaped(result'.args[1])
           /\ Refundable(result'.args[2]))
          => /\ result'.msg \notin {"Refund amount must be greater than 0.",
                                    "Refund amount exceeds maximum late fee."}
             /\ Len(GatewayCallsOf(calls')) = 1]_vars

\* the capped fee of 15.00 has been charged for a loan long overdue
C33_Witness ==
    /\ result.op = "pay"
    /\ result.ok
    /\ Len(GatewayCallsOf(calls)) = 1
    /\ GatewayCallsOf(calls)[1].args[2] = 15000
    /\ \E i \in ActiveRows(records, result.args[1], result.args[2]) :
          DateOf(now) - DateOf(records[i].due_date) > 19


\* the fee the claims state for the pair (p, b) from the rows rs at the
\* instant t: that of an active record of the pair that is overdue
FeesDue(rs, t, p, b) ==
    {StatedFee(DateOf(t) - DateOf(rs[i].due_date)) :
        i \in {j \in ActiveRows(rs, p, b) : DateOf(t) > DateOf(rs[j].due_date)}}

\* C34: pay_late_fees and refund_late_fee_payment change no book and no
\* borrow record (and not the instant); after a successful payment the
\* record of the pair is still active and the fee computed from the state
\* the payment leaves is the amount just charged; calculate_late_fee_for_book
\* reports that fee for an overdue active record, paid or not; and every
\* pay_late_fees call of a well-formed patron for a pair with an overdue
\* active record invokes process_payment once for that fee, so a second
\* call at the same instant charges the same amount again.
C34_PaymentChangesNothing ==
    [][/\ result'.op \in {"pay", "refund"}
          => /\ books' = books
             /\ records' = records
             /\ now' = now
       /\ (result'.op = "pay" /\ result'.ok)
          => /\ Len(GatewayCallsOf(calls')) = 1
             /\ FeesDue(records', now', result'.args[1], result'.args[2])
                  = {GatewayCallsOf(calls')[1].args[2]}
       /\ (/\ result'.op = "late_fee"
           /\ FeesDue(records, now, result'.args[1], result'.args[2]) # {})
          => result'.fee \in FeesDue(records, now, result'.args[1], result'.args[2])
       /\ (/\ result'.op = "pay"
           /\ SixDigits(result'.args[1])
           /\ FeesDue(records, now, result'.args[1], result'.args[2]) # {})
          => /\ Len(GatewayCallsOf(calls')) = 1
             /\ GatewayCallsOf(calls')[1].fn = "process_payment"
             /\ GatewayCallsOf(calls')[1].args[1] = result'.args[1]
             /\ FeesDue(records, now, result'.args[1], result'.args[2])
                  = {GatewayCallsOf(calls')[1].args[2]}]_vars

\* a fee below the cap has been paid and the loan is still active and
\* still owes that fee
C34_Witness ==
    /\ result.op = "pay"
    /\ result.ok
    /\ result.transaction_id # <<>>
    /\ \E fee \in FeesDue(records, now, result.args[1], result.args[2]) :
          /\ fee > 0
          /\ fee < 15000
          /\ GatewayCallsOf(calls)[1].args[2] = fee


\* the rows of rs of the pair (p, b) that were returned after their due date
ReturnedLate(rs, p, b) ==
    {i \in 1..Len(rs) : /\ rs[i].patron_id = p
                        /\ rs[i].book_id = b
                        /\ rs[i].return_date # NoDate
                        /\ DateOf(rs[i].return_date) > DateOf(rs[i].due_date)}

\* C35: fees are payable only while the borrow record is active: a
\* return_book_by_patron(p, b) that succeeds, with or without a late fee in
\* its message, leaves no active record of the pair, and every
\* pay_late_fees(p, b) for a pair without an active record fails with a
\* null transaction id and without any gateway call, under the message
\* "No late fees to pay for this book." for a well-formed patron ID, after
\* reading the patron's borrowed books only.
C35_PayableWhileActive ==
    [][/\ (result'.op = "return" /\ result'.ok)
          => /\ ActiveRows(records', result'.args[1], result'.args[2]) = {}
             /\ result'.fee > 0
                => ReturnedLate(records', result'.args[1], result'.args[2]) # {}
       /\ (/\ result'.op = "pay"
           /\ ActiveRows(records, result'.args[1], result'.args[2]) = {})
          => /\ ~result'.ok
             /\ result'.transaction_id = <<>>
             /\ GatewayCallsOf(calls') = <<>>
             /\ SixDigits(result'.args[1])
                => /\ result'.msg = "No late fees to pay for this book."
                   /\ FunctionsOf(calls') = <<"get_patron_borrowed_books">>]_vars

\* a payment has been refused for a loan that was returned late and is no
\* longer active
C35_Witness ==
    /\ result.op = "pay"
    /\ ~result.ok
    /\ result.msg = "No late fees to pay for this book."
    /\ ActiveRows(records, result.args[1], result.args[2]) = {}
    /\ ReturnedLate(records, result.args[1], result.args[2]) # {}

=============================================================================
